---------------------------- MODULE Spec2Model ----------------------------
(***************************************************************************)
(* Resumable chunked EPUB-to-audio conversion (cestoliv/epubtts).          *)
(*                                                                         *)
(* The model follows src/src/audio_generator.py (convert_text_to_audio,    *)
(* handle_ctrl_c, SpinnerManager), src/src/progress_manager.py,            *)
(* src/src/audio_utils.py (append_audio_to_wav), src/src/text_processing.py*)
(* and the chapter selection of src/src/chapter_selector.py.               *)
(*                                                                         *)
(* Text is a sequence of one-character strings.  Audio is represented by   *)
(* the chunk it was synthesised from; its sample count is a function of    *)
(* the chunk text (a deterministic engine).                                *)
(***************************************************************************)
EXTENDS Integers, Sequences, FiniteSets, TLC

(***************************************************************************)
(* Bounds of the model.                                                    *)
(***************************************************************************)
\* number of process starts (runs of main.py) explored
MaxRuns == 2
\* number of engine and file errors raised in one behaviour
MaxFaults == 1

(***************************************************************************)
(* text_processing.py                                                      *)
(***************************************************************************)
\* characters str.strip() and str.split() treat as white space
IsSpace(c) == c \in {" ", "\n"}

\* text.replace("\n", " ")
replace_newlines(text) ==
    [i \in 1..Len(text) |-> IF text[i] = "\n" THEN " " ELSE text[i]]

\* text.split("."): one part per terminator plus the rest, empty parts kept
RECURSIVE split_from(_, _, _, _)
split_from(text, i, cur, acc) ==
    IF i > Len(text) THEN Append(acc, cur)
    ELSE IF text[i] = "." THEN split_from(text, i + 1, <<>>, Append(acc, cur))
    ELSE split_from(text, i + 1, Append(cur, text[i]), acc)

split_period(text) == split_from(text, 1, <<>>, <<>>)

RECURSIVE lstrip(_)
lstrip(s) == IF s # <<>> /\ IsSpace(Head(s)) THEN lstrip(Tail(s)) ELSE s

RECURSIVE rstrip(_)
rstrip(s) ==
    IF s # <<>> /\ IsSpace(s[Len(s)]) THEN rstrip(SubSeq(s, 1, Len(s) - 1)) ELSE s

\* part.strip()
strip(s) == rstrip(lstrip(s))

\* len(s.split()): the number of maximal runs of non-space characters
word_count(s) ==
    Cardinality({i \in 1..Len(s) : ~IsSpace(s[i]) /\ (i = 1 \/ IsSpace(s[i - 1]))})

\* fragments with fewer words than this are dropped by extract_sentences
MinSentenceWords == 3

\* mutant: fragments of two words are kept
RECURSIVE sentences_from_KeepShort(_, _, _)
sentences_from_KeepShort(parts, i, acc) ==
    IF i > Len(parts) THEN acc
    ELSE LET part == strip(parts[i])
             sentence == part \o <<".">>
         IN  IF part = <<>> THEN sentences_from_KeepShort(parts, i + 1, acc)
             ELSE IF word_count(sentence) >= MinSentenceWords - 1
                  THEN sentences_from_KeepShort(parts, i + 1, Append(acc, sentence))
                  ELSE sentences_from_KeepShort(parts, i + 1, acc)

RECURSIVE sentences_from(_, _, _)
sentences_from(parts, i, acc) ==
    IF i > Len(parts) THEN acc
    ELSE LET part == strip(parts[i])
             sentence == part \o <<".">>
         IN  IF part = <<>> THEN sentences_from(parts, i + 1, acc)
             ELSE IF word_count(sentence) >= MinSentenceWords
                  THEN sentences_from(parts, i + 1, Append(acc, sentence))
                  ELSE sentences_from(parts, i + 1, acc)

extract_sentences(text) ==
    sentences_from(split_period(replace_newlines(text)), 1, <<>>)

\* mutant: the sentences of a chunk are joined without a separator
RECURSIVE join_space_NoSpace(_)
join_space_NoSpace(ss) ==
    IF ss = <<>> THEN <<>> ELSE ss[1] \o join_space_NoSpace(Tail(ss))

\* " ".join(current_chunk)
RECURSIVE join_space(_)
join_space(ss) ==
    IF ss = <<>> THEN <<>>
    ELSE IF Len(ss) = 1 THEN ss[1]
    ELSE ss[1] \o <<" ">> \o join_space(Tail(ss))

\* mutant: a sentence that fits on its own is always added to the current
\* chunk, the limit is not looked at
RECURSIVE chunk_loop_NeverFlush(_, _, _, _, _, _)
chunk_loop_NeverFlush(sentences_, i, max_words, chunks_, current_chunk, current_size) ==
    IF i > Len(sentences_)
    THEN IF current_chunk # <<>> THEN Append(chunks_, join_space(current_chunk))
         ELSE chunks_
    ELSE LET sentence == sentences_[i]
             sentence_word_count == word_count(sentence)
         IN  IF sentence_word_count > max_words
             THEN chunk_loop_NeverFlush(sentences_, i + 1, max_words,
                      Append(IF current_chunk # <<>>
                             THEN Append(chunks_, join_space(current_chunk))
                             ELSE chunks_, sentence),
                      <<>>, 0)
             ELSE chunk_loop_NeverFlush(sentences_, i + 1, max_words, chunks_,
                      Append(current_chunk, sentence),
                      current_size + sentence_word_count)

\* mutant: every sentence starts a new chunk
RECURSIVE chunk_loop_OnePerChunk(_, _, _, _, _, _)
chunk_loop_OnePerChunk(sentences_, i, max_words, chunks_, current_chunk, current_size) ==
    IF i > Len(sentences_) THEN chunks_
    ELSE chunk_loop_OnePerChunk(sentences_, i + 1, max_words,
                                Append(chunks_, sentences_[i]), <<>>, 0)

\* the loop of chunk_text over sentences[i..]; current_size is kept as the
\* code keeps it, a running sum of the word counts put into current_chunk
RECURSIVE chunk_loop(_, _, _, _, _, _)
chunk_loop(sentences, i, max_chunk_words, chunks, current_chunk, current_size) ==
    IF i > Len(sentences)
    THEN IF current_chunk # <<>> THEN Append(chunks, join_space(current_chunk))
         ELSE chunks
    ELSE LET sentence == sentences[i]
             sentence_word_count == word_count(sentence)
         IN  IF sentence_word_count > max_chunk_words
             THEN chunk_loop(sentences, i + 1, max_chunk_words,
                      Append(IF current_chunk # <<>>
                             THEN Append(chunks, join_space(current_chunk))
                             ELSE chunks, sentence),
                      IF current_chunk # <<>> THEN <<>> ELSE current_chunk,
                      IF current_chunk # <<>> THEN 0 ELSE current_size)
             ELSE IF current_size + sentence_word_count > max_chunk_words
                     /\ current_chunk # <<>>
             THEN chunk_loop(sentences, i + 1, max_chunk_words,
                      Append(chunks, join_space(current_chunk)),
                      <<sentence>>, sentence_word_count)
             ELSE chunk_loop(sentences, i + 1, max_chunk_words, chunks,
                      Append(current_chunk, sentence),
                      current_size + sentence_word_count)

chunk_text(text, max_chunk_words) ==
    chunk_loop(extract_sentences(text), 1, max_chunk_words, <<>>, <<>>, 0)


(***************************************************************************)
(* Inputs: the book handed over by extract_chapters_from_epub and the      *)
(* chunk-size limits the command line is given.                            *)
(***************************************************************************)
\* n words followed by the terminator: "w w w."
RECURSIVE Sentence(_)
Sentence(n) == IF n = 1 THEN <<"w", ".">> ELSE <<"w", " ">> \o Sentence(n - 1)

\* chapter contents, in book order (python index = position - 1)
Book ==
    << Sentence(3) \o <<" ">> \o Sentence(3) \o <<"\n">> \o Sentence(4),
       Sentence(7) \o <<" ">> \o Sentence(2) >>

NumChapters == Len(Book)

\* values of --max-chunk-words tried: the first chapter packs two sentences
\* into its first chunk, the second chapter is one oversized sentence
Limits == {6}

\* mutant: the list is in descending order
RECURSIVE sorted_Descending(_)
sorted_Descending(S) ==
    IF S = {} THEN <<>>
    ELSE LET m == CHOOSE x \in S : \A y \in S : x >= y
         IN  <<m>> \o sorted_Descending(S \ {m})

\* sorted(list(selected_indices))
RECURSIVE sorted(_)
sorted(S) ==
    IF S = {} THEN <<>>
    ELSE LET m == CHOOSE x \in S : \A y \in S : x <= y
         IN  <<m>> \o sorted(S \ {m})

\* set(existing_selection)
set_of(seq) == {seq[i] : i \in 1..Len(seq)}

(***************************************************************************)
(* progress_manager.py                                                     *)
(***************************************************************************)
\* load_progress returns None
None == [is_none |-> TRUE]

\* time.time(): no code reads the stored timestamp, one value stands for all
time_time == 1

\* the dict save_progress builds
progress_data(chapter_index, chunk_index, total_chunks, timestamp, selected_chapters) ==
    [chapter_index |-> chapter_index, chunk_index |-> chunk_index,
     total_chunks |-> total_chunks, timestamp |-> timestamp,
     selected_chapters |-> selected_chapters]

\* pickle.dump: the record written out field after field
pickle_dump(d) ==
    <<d.chapter_index, d.chunk_index, d.total_chunks, d.timestamp, d.selected_chapters>>

\* pickle.load reads one record from the start of the file and succeeds only
\* when a complete dump is there
pickle_ok(bytes) == Len(bytes) >= 5

pickle_load(bytes) == progress_data(bytes[1], bytes[2], bytes[3], bytes[4], bytes[5])

\* a file that does not exist
NoFile == [exists |-> FALSE, bytes |-> <<>>]

\* open(progress_file, 'wb'): the file exists and is empty
open_wb == [exists |-> TRUE, bytes |-> <<>>]

\* pickle.dump(progress_data, f) into the open file
write_dump(file, d) == [exists |-> TRUE, bytes |-> file.bytes \o pickle_dump(d)]

\* mutant: the file is opened for appending, earlier dumps stay in front
save_progress_Append(file, chapter_index, chunk_index, total_chunks, selected_chapters) ==
    write_dump([exists |-> TRUE, bytes |-> file.bytes],
               progress_data(chapter_index, chunk_index, total_chunks, time_time,
                             selected_chapters))

\* save_progress as one call that returns
save_progress(file, chapter_index, chunk_index, total_chunks, selected_chapters) ==
    write_dump(open_wb,
               progress_data(chapter_index, chunk_index, total_chunks, time_time,
                             selected_chapters))

\* mutant: a file that does not unpickle yields a record without a position
load_progress_DefaultRecord(file) ==
    IF file.exists
    THEN IF pickle_ok(file.bytes) THEN pickle_load(file.bytes)
         ELSE progress_data(0, 0, 0, 0, <<>>)
    ELSE None

load_progress(file) ==
    IF file.exists
    THEN IF pickle_ok(file.bytes) THEN pickle_load(file.bytes) ELSE None
    ELSE None

\* what a load of the file meets: no file, a file that does not unpickle, a record
CkptKind(file) ==
    IF ~file.exists THEN "absent"
    ELSE IF pickle_ok(file.bytes) THEN "ok" ELSE "corrupt"

\* truth value of a loaded progress dict (None is falsy, a dict with keys is truthy)
truthy(progress_) == progress_ # None

(***************************************************************************)
(* Audio.  The engine is deterministic: the audio of a chunk is a function *)
(* of its text.  An audio block records where its text came from.          *)
(***************************************************************************)
\* number of samples the engine produces for a chunk text
Samples(chunk) == word_count(chunk)

\* backend.process_chunk(chunk, voice) on the text of chunk number chunk_no
\* (1-based) of book chapter ch under limit lim, in job j
process_chunk(chunk, ch, chunk_no, lim, j) ==
    [ch |-> ch, ck |-> chunk_no - 1, lim |-> lim, n |-> Samples(chunk), job |-> j]

RECURSIVE SampleCount(_)
SampleCount(data) == IF data = <<>> THEN 0 ELSE Head(data).n + SampleCount(Tail(data))

\* an output path without a file
NoWav == [exists |-> FALSE, data |-> <<>>]

\* mutant: the first-chunk flag is ignored, a file that exists is extended
append_content_IgnoreFirst(file, audio, first_chunk) ==
    IF ~file.exists THEN <<audio>> ELSE file.data \o <<audio>>

\* mutant: every call writes a new file
append_content_Overwrite(file, audio, first_chunk) ==
    <<audio>>

\* audio_utils.py 38-60: what append_audio_to_wav hands to sf.write: the new
\* audio alone (first chunk, or no file) or the content read back followed by
\* the new audio
append_content(file, audio, first_chunk) ==
    IF first_chunk \/ ~file.exists THEN <<audio>> ELSE file.data \o <<audio>>

\* append_audio_to_wav as one call that returns
append_audio_to_wav(file, audio, first_chunk) ==
    [exists |-> TRUE, data |-> append_content(file, audio, first_chunk)]

(***************************************************************************)
(* Loudness.  audio_utils.normalize_audio_level works on binary floating   *)
(* point numbers.  A number is <<m, e>> and stands for m * 2^e, with m = 0 *)
(* or a mantissa of MantBits bits; every operation rounds its exact result *)
(* to the nearest such number, ties to the even mantissa, as numpy does    *)
(* with 24 or 53 bits.                                                     *)
(***************************************************************************)
\* bits of a mantissa
MantBits == 8

RECURSIVE Pow2(_)
Pow2(n) == IF n = 0 THEN 1 ELSE 2 * Pow2(n - 1)

MantMin == Pow2(MantBits - 1)
MantMax == Pow2(MantBits) - 1

f_zero == <<0, 0>>

\* num / den rounded to the nearest integer, ties to even
round_half_even(num, den) ==
    LET q == num \div den
        r == num % den
    IN  IF 2 * r < den THEN q
        ELSE IF 2 * r > den THEN q + 1
        ELSE IF q % 2 = 0 THEN q ELSE q + 1

\* the number nearest to (num / den) * 2^e, for num > 0 and den > 0
RECURSIVE fl_pos(_, _, _)
fl_pos(num, den, e) ==
    IF num >= den * Pow2(MantBits) THEN fl_pos(num, 2 * den, e + 1)
    ELSE IF num < den * MantMin THEN fl_pos(2 * num, den, e - 1)
    ELSE LET m == round_half_even(num, den)
         IN  IF m > MantMax THEN <<MantMin, e + 1>> ELSE <<m, e>>

\* the number nearest to (num / den) * 2^e, for den > 0
fl(num, den, e) ==
    IF num = 0 THEN f_zero
    ELSE IF num > 0 THEN fl_pos(num, den, e)
    ELSE LET r == fl_pos(-num, den, e) IN <<-r[1], r[2]>>

f_abs(a) == IF a[1] < 0 THEN <<-a[1], a[2]>> ELSE a

f_mul(a, b) == fl(a[1] * b[1], 1, a[2] + b[2])

f_div(a, b) ==
    IF b[1] > 0 THEN fl(a[1], b[1], a[2] - b[2]) ELSE fl(-a[1], -b[1], a[2] - b[2])

\* a + b; a term below half a unit in the last place of the other is absorbed
f_add(a, b) ==
    IF a[1] = 0 THEN b
    ELSE IF b[1] = 0 THEN a
    ELSE IF a[2] - b[2] > MantBits + 1 THEN a
    ELSE IF b[2] - a[2] > MantBits + 1 THEN b
    ELSE IF a[2] >= b[2] THEN fl(a[1] * Pow2(a[2] - b[2]) + b[1], 1, b[2])
    ELSE fl(a[1] + b[1] * Pow2(b[2] - a[2]), 1, a[2])

\* a > b
f_gt(a, b) ==
    IF a[1] = 0 THEN b[1] < 0
    ELSE IF b[1] = 0 THEN a[1] > 0
    ELSE IF a[2] - b[2] > MantBits THEN a[1] > 0
    ELSE IF b[2] - a[2] > MantBits THEN b[1] < 0
    ELSE IF a[2] >= b[2] THEN a[1] * Pow2(a[2] - b[2]) > b[1]
    ELSE a[1] > b[1] * Pow2(b[2] - a[2])

\* np.sqrt: the correctly rounded square root of a > 0
f_sqrt(a) ==
    IF a[1] = 0 THEN f_zero
    ELSE LET t  == IF (a[2] - MantBits) % 2 = 0 THEN MantBits ELSE MantBits - 1
             M  == a[1] * Pow2(t)
             r  == CHOOSE x \in MantMin..(MantMax + 1) :
                       (2 * x - 1) * (2 * x - 1) <= 4 * M
                           /\ 4 * M < (2 * x + 1) * (2 * x + 1)
             er == (a[2] - t) \div 2
         IN  IF r > MantMax THEN <<MantMin, er + 1>> ELSE <<r, er>>

\* the neighbours of a > 0
f_succ(a) == IF a[1] = MantMax THEN <<MantMin, a[2] + 1>> ELSE <<a[1] + 1, a[2]>>
f_pred(a) == IF a[1] = MantMin THEN <<MantMax, a[2] - 1>> ELSE <<a[1] - 1, a[2]>>

\* line 27: the literal 0.95
ClipPeak == fl(95, 100, 0)

\* 10 ** (NORMALIZE_AUDIO_LEVEL / 20) for the level of -20 dB
target_rms == fl(1, 10, 0)

\* the sum of audio_data**2 over lo..hi, added pairwise by halves as numpy's
\* reduction does for long arrays
RECURSIVE sum_squares(_, _, _)
sum_squares(audio, lo, hi) ==
    IF lo > hi THEN f_zero
    ELSE IF lo = hi THEN f_mul(audio[lo], audio[lo])
    ELSE LET mid == (lo + hi) \div 2
         IN  f_add(sum_squares(audio, lo, mid), sum_squares(audio, mid + 1, hi))

\* np.mean(audio_data**2)
mean_square(audio) ==
    f_div(sum_squares(audio, 1, Len(audio)), fl(Len(audio), 1, 0))

\* line 13
rms_of(audio) == f_sqrt(mean_square(audio))

\* lines 17-21: 10 ** ((target_db - 20 * log10(rms)) / 20) is target_rms / rms
\* up to the rounding of log10 and of the power, which the math library
\* decides: the nearest number or one of its neighbours
gain_choices(audio) ==
    IF Len(audio) = 0 \/ rms_of(audio) = f_zero THEN {f_zero}
    ELSE LET g == f_div(target_rms, rms_of(audio))
         IN  {f_pred(g), g, f_succ(g)}

\* the larger of two numbers
f_max(a, b) == IF f_gt(a, b) THEN a ELSE b

\* np.max(np.abs(a)) over lo..hi
RECURSIVE max_abs(_, _, _)
max_abs(a, lo, hi) ==
    IF lo > hi THEN f_zero
    ELSE IF lo = hi THEN f_abs(a[lo])
    ELSE LET mid == (lo + hi) \div 2
         IN  f_max(max_abs(a, lo, mid), max_abs(a, mid + 1, hi))

peak(a) == max_abs(a, 1, Len(a))

f_one == fl(1, 1, 0)

\* mutant: the peak is brought to 1.0, no headroom is left
normalize_audio_level_NoHeadroom(audio_data, gain_linear) ==
    IF Len(audio_data) = 0 THEN audio_data
    ELSE IF rms_of(audio_data) = f_zero THEN audio_data
    ELSE LET normalized_audio ==
                 [i \in 1..Len(audio_data) |-> f_mul(audio_data[i], gain_linear)]
             max_val == peak(normalized_audio)
         IN  IF f_gt(max_val, ClipPeak)
             THEN LET scale == f_div(f_one, max_val)
                  IN  [i \in 1..Len(audio_data) |-> f_mul(normalized_audio[i], scale)]
             ELSE normalized_audio

\* normalize_audio_level(audio_data), lines 7-30, with the gain of line 21
normalize_audio_level(audio_data, gain_linear) ==
    IF Len(audio_data) = 0 THEN audio_data
    ELSE IF rms_of(audio_data) = f_zero THEN audio_data
    ELSE LET normalized_audio ==
                 [i \in 1..Len(audio_data) |-> f_mul(audio_data[i], gain_linear)]
             max_val == peak(normalized_audio)
         IN  IF f_gt(max_val, ClipPeak)
             THEN LET scale == f_div(ClipPeak, max_val)
                  IN  [i \in 1..Len(audio_data) |-> f_mul(normalized_audio[i], scale)]
             ELSE normalized_audio

(***************************************************************************)
(* State.                                                                  *)
(***************************************************************************)
VARIABLES
    wavFile,            \* the output audio file: [exists, data]
    progressFile,       \* <output>.progress: [exists, bytes]
    pc,                 \* position of the main thread
    runs,               \* processes started so far
    faults,             \* engine and file errors raised so far
    exit_code,          \* exit status of the process, -1 while it has none
    reselect_chapters,  \* argument of convert_text_to_audio
    max_chunk_words,    \* argument of convert_text_to_audio
    text,               \* argument of a direct call of chunk_text
    sentences,          \* result of a direct call of extract_sentences
    test_audio,         \* argument of a direct call of normalize_audio_level
    gain_linear,        \* the gain of line 21 in that call
    normalized_audio,   \* result of that call
    chapters,           \* the filtered chapter list, as book indices
    selected_indices,
    progress,           \* load_progress result of line 113
    start_chapter, start_chunk,
    chapter_num, chunk_num,
    chunks,             \* chunk_text result of line 138
    audio_data,         \* result of backend.process_chunk
    combined_audio,     \* what append_audio_to_wav is writing
    dump_data,          \* what save_progress is dumping
    is_first_chunk,
    stop_spinner, stop_audio,   \* spinner_manager flags
    spinner,            \* the spinner thread: "none", "running", "exited"
    hist                \* history of the job, for stating the properties

files == <<wavFile, progressFile>>
norm == <<test_audio, gain_linear, normalized_audio>>
args == <<reselect_chapters, max_chunk_words, text, sentences, norm>>
sel == <<chapters, selected_indices>>
loopv == <<progress, start_chapter, start_chunk, chapter_num, chunk_num, chunks>>
tmp == <<audio_data, combined_audio, dump_data, is_first_chunk>>
thr == <<stop_spinner, stop_audio, spinner>>
vars == <<files, pc, runs, faults, exit_code, args, sel, loopv, tmp, thr, hist>>

NoAudio == [ch |-> -1, ck |-> -1, lim |-> 0, n |-> 0, job |-> 0]
NoPos == <<-1, -1>>

\* zero-based position of the chunk the loop is at
Pos == <<chapter_num, chunk_num - 1>>

\* the process does not run
Stopped == pc \in {"idle", "done", "exited"}

\* a chunk is between the start of its engine call and the end of its save
InChunk == pc \in {"synth", "append", "appendWrite", "save", "dump"}

\* the places where the output file and the checkpoint disagree about the chunk
MidChunk == pc \in {"appendWrite", "save", "dump"}

\* the locals of convert_text_to_audio before it assigns them; also their
\* value once the main thread has ended
NoLocals ==
    /\ chapters' = <<>>
    /\ selected_indices' = {}
    /\ progress' = None
    /\ start_chapter' = 0 /\ start_chunk' = 0
    /\ chapter_num' = 0 /\ chunk_num' = 0
    /\ chunks' = <<>>
    /\ audio_data' = NoAudio
    /\ combined_audio' = <<>>
    /\ dump_data' = None
    /\ is_first_chunk' = FALSE

\* the part of the history that describes the running process
NoRun(h) ==
    [h EXCEPT !.synthRun = {}, !.first = NoPos, !.resumed = FALSE,
              !.ckptBefore = NoFile, !.wavBefore = NoWav,
              !.startCkpt = "none", !.startWav = FALSE, !.appendsRun = 0]

\* history after the process was interrupted at pc
Interrupted(h) ==
    [NoRun(h) EXCEPT !.inflight = IF InChunk THEN Pos ELSE NoPos,
                     !.jobClean = h.jobClean /\ ~MidChunk,
                     !.outcome = "none"]

Init ==
    /\ wavFile = NoWav
    /\ progressFile = NoFile
    /\ pc = "idle"
    /\ runs = 0
    /\ faults = 0
    /\ exit_code = -1
    /\ reselect_chapters = FALSE
    /\ max_chunk_words \in Limits
    /\ text = <<>> /\ sentences = <<>>
    /\ test_audio = <<>> /\ gain_linear = f_zero /\ normalized_audio = <<>>
    /\ chapters = <<>>
    /\ selected_indices = {}
    /\ progress = None
    /\ start_chapter = 0 /\ start_chunk = 0
    /\ chapter_num = 0 /\ chunk_num = 0
    /\ chunks = <<>>
    /\ audio_data = NoAudio
    /\ combined_audio = <<>>
    /\ dump_data = None
    /\ is_first_chunk = FALSE
    /\ stop_spinner = FALSE /\ stop_audio = FALSE
    /\ spinner = "none"
    /\ hist = [job |-> 0, jobClean |-> FALSE, jobBase |-> 0, jobLimits |-> {},
               jobSel |-> {},
               saved |-> {}, inflight |-> NoPos,
               synthRun |-> {}, first |-> NoPos, resumed |-> FALSE,
               outcome |-> "none",
               ckptBefore |-> NoFile, wavBefore |-> NoWav,
               startCkpt |-> "none", startWav |-> FALSE,
               appendsRun |-> 0, lastAppend |-> 0]

(***************************************************************************)
(* main.py / convert_text_to_audio, lines 52-81: a process starts.         *)
(***************************************************************************)
Start(reselect, lim) ==
    /\ Stopped
    /\ spinner # "running"
    /\ runs < MaxRuns
    /\ runs' = runs + 1
    /\ pc' = "load"
    /\ exit_code' = -1
    /\ reselect_chapters' = reselect
    /\ max_chunk_words' = lim
    /\ NoLocals
    /\ stop_spinner' = FALSE /\ stop_audio' = FALSE
    /\ spinner' = "none"
    /\ hist' = [NoRun(hist) EXCEPT
                   !.outcome = "none",
                   !.startCkpt = CkptKind(progressFile),
                   !.startWav = wavFile.exists]
    /\ UNCHANGED <<files, faults, text, sentences, norm>>

\* mutant: the output file is created before the input is checked
InputError_CreatesOutput ==
    /\ Stopped
    /\ spinner # "running"
    /\ pc' = "exited"
    /\ exit_code' = 1
    /\ wavFile' = [exists |-> TRUE, data |-> <<>>]
    /\ NoLocals
    /\ stop_spinner' = FALSE /\ stop_audio' = FALSE
    /\ spinner' = "none"
    /\ hist' = [NoRun(hist) EXCEPT !.outcome = "input_error"]
    /\ UNCHANGED <<progressFile, runs, faults, args>>

\* main.py 73-75 (no such file), 77-79 (not an .epub name) and
\* audio_generator.py 69-72 (no chapter extracted): an invocation with such
\* an input prints the error and calls sys.exit(1); it is not counted in runs
InputError ==
    /\ Stopped
    /\ spinner # "running"
    /\ pc' = "exited"
    /\ exit_code' = 1
    /\ NoLocals
    /\ stop_spinner' = FALSE /\ stop_audio' = FALSE
    /\ spinner' = "none"
    /\ hist' = [NoRun(hist) EXCEPT !.outcome = "input_error"]
    /\ UNCHANGED <<files, runs, faults, args>>

\* mutant: --reselect-chapters is not looked at
LoadExisting_ReselectIgnored ==
    /\ pc = "load"
    /\ LET existing_progress == load_progress(progressFile)
           existing_selection == IF truthy(existing_progress)
                                 THEN existing_progress.selected_chapters
                                 ELSE <<>>
       IN  IF existing_selection = <<>>
           THEN /\ pc' = "select"
                /\ UNCHANGED <<sel, hist>>
           ELSE /\ selected_indices' = set_of(existing_selection)
                /\ chapters' = sorted(set_of(existing_selection))
                /\ pc' = "resolve"
                /\ hist' = [hist EXCEPT
                       !.resumed = TRUE,
                       !.jobLimits = hist.jobLimits \cup {max_chunk_words},
                       !.jobClean = hist.jobClean
                                    /\ hist.jobLimits = {max_chunk_words}]
    /\ UNCHANGED <<files, runs, faults, exit_code, args, loopv, tmp, thr>>

\* lines 82-98: reuse the stored selection or go to the selection collaborator
LoadExisting ==
    /\ pc = "load"
    /\ LET existing_progress == load_progress(progressFile)
           existing_selection == IF truthy(existing_progress)
                                 THEN existing_progress.selected_chapters
                                 ELSE <<>>
       IN  IF reselect_chapters \/ existing_selection = <<>>
           THEN /\ pc' = "select"
                /\ UNCHANGED <<sel, hist>>
           ELSE /\ selected_indices' = set_of(existing_selection)
                /\ chapters' = sorted(set_of(existing_selection))
                /\ pc' = "resolve"
                /\ hist' = [hist EXCEPT
                       !.resumed = TRUE,
                       !.jobLimits = hist.jobLimits \cup {max_chunk_words},
                       !.jobClean = hist.jobClean
                                    /\ hist.jobLimits = {max_chunk_words}]
    /\ UNCHANGED <<files, runs, faults, exit_code, args, loopv, tmp, thr>>

(***************************************************************************)
(* chapter_selector.py: the user's answer and the save of the selection.   *)
(***************************************************************************)
\* lines 244-259 (145-148 in simple mode): a non-empty selection is saved
\* with position (0, 0) and total 0; save_progress opens the file first
SelectConfirm(S) ==
    /\ pc = "select"
    /\ S # {}
    /\ selected_indices' = S
    /\ dump_data' = progress_data(0, 0, 0, time_time, sorted(S))
    /\ progressFile' = open_wb
    /\ pc' = "selDump"
    /\ hist' = [hist EXCEPT !.job = hist.job + 1,
                            !.jobClean = TRUE,
                            !.jobBase = SampleCount(wavFile.data),
                            !.jobLimits = {max_chunk_words},
                            !.jobSel = S,
                            !.saved = {}, !.inflight = NoPos]
    /\ UNCHANGED <<wavFile, runs, faults, exit_code, args, chapters, loopv,
                   audio_data, combined_audio, is_first_chunk, thr>>

\* pickle.dump of the selection, then the filtered chapter list (line 264)
SelectDump ==
    /\ pc = "selDump"
    /\ progressFile' = write_dump(progressFile, dump_data)
    /\ chapters' = sorted(selected_indices)
    /\ pc' = "resolve"
    /\ UNCHANGED <<wavFile, runs, faults, exit_code, args, selected_indices, loopv,
                   tmp, thr, hist>>

\* simple mode, lines 130-135 and 140-144: the input names no valid chapter,
\* or reading it raised: every chapter is selected
SelectFallback ==
    /\ pc = "select"
    /\ selected_indices' = 0..(NumChapters - 1)
    /\ pc' = "selFallback"
    /\ UNCHANGED <<files, runs, faults, exit_code, args, chapters, loopv, tmp, thr,
                   hist>>

\* simple mode, lines 145-148 after the fallback: the selection is saved
SelectFallbackSave ==
    /\ pc = "selFallback"
    /\ dump_data' = progress_data(0, 0, 0, time_time, sorted(selected_indices))
    /\ progressFile' = open_wb
    /\ pc' = "selDump"
    /\ hist' = [hist EXCEPT !.job = hist.job + 1,
                            !.jobClean = TRUE,
                            !.jobBase = SampleCount(wavFile.data),
                            !.jobLimits = {max_chunk_words},
                            !.jobSel = selected_indices,
                            !.saved = {}, !.inflight = NoPos]
    /\ UNCHANGED <<wavFile, runs, faults, exit_code, args, sel, loopv,
                   audio_data, combined_audio, is_first_chunk, thr>>

\* mutant: leaving the selection removes the checkpoint
SelectNone_DeletesCheckpoint ==
    /\ pc = "select"
    /\ pc' = "exited"
    /\ exit_code' = 1
    /\ progressFile' = NoFile
    /\ UNCHANGED <<wavFile, runs, faults, args, sel, loopv, tmp, thr, hist>>

\* inquirer mode, lines 246-250: nothing selected, sys.exit(1)
SelectNone ==
    /\ pc = "select"
    /\ pc' = "exited"
    /\ exit_code' = 1
    /\ UNCHANGED <<files, runs, faults, args, sel, loopv, tmp, thr, hist>>

\* lines 240-242 and 252-254: the prompt was cancelled, sys.exit(0)
SelectCancel ==
    /\ pc = "select"
    /\ pc' = "exited"
    /\ exit_code' = 0
    /\ UNCHANGED <<files, runs, faults, args, sel, loopv, tmp, thr, hist>>

(***************************************************************************)
(* convert_text_to_audio, lines 112-208: the main loop.                    *)
(***************************************************************************)
\* mutant: the stored chunk index is not used, the resume chapter starts over
ResolveStart_IgnoreChunk ==
    /\ pc = "resolve"
    /\ LET loaded == load_progress(progressFile)
           sc == IF truthy(loaded) THEN loaded.chapter_index ELSE 0
       IN  IF truthy(loaded) /\ sc >= Len(chapters)
           THEN /\ pc' = "exited"
                /\ exit_code' = 1
                /\ NoLocals
                /\ hist' = NoRun(hist)
           ELSE /\ progress' = loaded
                /\ start_chapter' = sc
                /\ start_chunk' = 0
                /\ chapter_num' = sc
                /\ pc' = "chapter"
                /\ UNCHANGED <<exit_code, sel, chunk_num, chunks, tmp, hist>>
    /\ UNCHANGED <<files, runs, faults, args, thr>>

\* lines 113-129; line 124 indexes chapters[start_chapter] and raises
\* IndexError, which nothing catches, when the index is out of range
ResolveStart ==
    /\ pc = "resolve"
    /\ LET loaded == load_progress(progressFile)
           sc == IF truthy(loaded) THEN loaded.chapter_index ELSE 0
           sk == IF truthy(loaded) THEN loaded.chunk_index ELSE 0
       IN  IF truthy(loaded) /\ sc >= Len(chapters)
           THEN /\ pc' = "exited"
                /\ exit_code' = 1
                /\ NoLocals
                /\ hist' = NoRun(hist)
           ELSE /\ progress' = loaded
                /\ start_chapter' = sc
                /\ start_chunk' = sk
                /\ chapter_num' = sc
                /\ pc' = "chapter"
                /\ UNCHANGED <<exit_code, sel, chunk_num, chunks, tmp, hist>>
    /\ UNCHANGED <<files, runs, faults, args, thr>>

\* mutant: no chunk of the resume chapter is skipped
ChapterHead_NoSkip ==
    /\ pc = "chapter"
    /\ IF chapter_num >= Len(chapters) \/ stop_audio
       THEN pc' = "cleanup" /\ UNCHANGED <<chunk_num, chunks>>
       ELSE /\ chunks' = chunk_text(Book[chapters[chapter_num + 1] + 1], max_chunk_words)
            /\ chunk_num' = 1
            /\ pc' = "chunk"
    /\ UNCHANGED <<files, runs, faults, exit_code, args, sel, progress, start_chapter,
                   start_chunk, chapter_num, tmp, thr, hist>>

\* lines 131-152: next chapter of chapters[start_chapter:], or the loop ends
ChapterHead ==
    /\ pc = "chapter"
    /\ IF chapter_num >= Len(chapters) \/ stop_audio
       THEN pc' = "cleanup" /\ UNCHANGED <<chunk_num, chunks>>
       ELSE /\ chunks' = chunk_text(Book[chapters[chapter_num + 1] + 1], max_chunk_words)
            /\ chunk_num' = (IF chapter_num = start_chapter THEN start_chunk ELSE 0) + 1
            /\ pc' = "chunk"
    /\ UNCHANGED <<files, runs, faults, exit_code, args, sel, progress, start_chapter,
                   start_chunk, chapter_num, tmp, thr, hist>>

\* lines 154-164: next chunk of chunks[chunk_start:], the spinner is started
ChunkHead ==
    /\ pc = "chunk"
    /\ IF chunk_num > Len(chunks) \/ stop_audio
       THEN /\ pc' = "chapterEnd"
            /\ UNCHANGED <<thr, hist>>
       ELSE /\ stop_spinner' = FALSE
            /\ spinner' = "running"
            /\ pc' = "synth"
            /\ hist' = [hist EXCEPT !.outcome = "none",
                                    !.ckptBefore = progressFile,
                                    !.wavBefore = wavFile]
            /\ UNCHANGED stop_audio
    /\ UNCHANGED <<files, runs, faults, exit_code, args, sel, loopv, tmp>>

\* history once the engine was invoked on the chunk at Pos
Invoked(h) ==
    [h EXCEPT !.synthRun = h.synthRun \cup {Pos},
              !.first = IF h.first = NoPos THEN Pos ELSE h.first]

\* line 168: backend.process_chunk returns the audio
SynthOk ==
    /\ pc = "synth"
    /\ audio_data' = process_chunk(chunks[chunk_num], chapters[chapter_num + 1],
                                   chunk_num, max_chunk_words, hist.job)
    /\ pc' = "append"
    /\ hist' = Invoked(hist)
    /\ UNCHANGED <<files, runs, faults, exit_code, args, sel, loopv, combined_audio,
                   dump_data, is_first_chunk, thr>>

\* line 168 raises an Exception, caught on line 188
SynthError ==
    /\ faults < MaxFaults
    /\ faults' = faults + 1
    /\ pc = "synth"
    /\ pc' = "stopSpinner"
    /\ hist' = [Invoked(hist) EXCEPT !.outcome = "engine_error", !.jobClean = FALSE]
    /\ UNCHANGED <<files, runs, exit_code, args, sel, loopv, tmp, thr>>

\* tts_backend.py 310-316 with 88-90: the fresh backend fails to load its
\* model and calls sys.exit(1); SystemExit is not an Exception, so line 188
\* does not catch it and the main thread ends with the spinner still running
SynthExit ==
    /\ pc = "synth"
    /\ pc' = "exited"
    /\ exit_code' = 1
    /\ hist' = [Interrupted(Invoked(hist)) EXCEPT !.outcome = "engine_exit",
                                                  !.jobClean = FALSE]
    /\ NoLocals
    /\ UNCHANGED <<files, runs, faults, args, thr>>

(***************************************************************************)
(* audio_utils.py, append_audio_to_wav (called on lines 171-174).          *)
(***************************************************************************)
\* mutant: is_first_chunk is decided by the position alone
AppendBegin_FirstByPosition ==
    /\ pc = "append"
    /\ LET first_chunk == chapter_num = 0 /\ chunk_num = 1
       IN  /\ is_first_chunk' = first_chunk
           /\ combined_audio' = append_content(wavFile, audio_data, first_chunk)
    /\ wavFile' = [exists |-> TRUE, data |-> <<>>]
    /\ pc' = "appendWrite"
    /\ UNCHANGED <<progressFile, runs, faults, exit_code, args, sel, loopv, audio_data,
                   dump_data, thr, hist>>

\* lines 171 and 33-61 up to the opening of the file by sf.write: the new
\* content is the new block alone (first chunk, or no file) or the content
\* read back followed by the new block; sf.write opens the file for writing
AppendBegin ==
    /\ pc = "append"
    /\ LET first_chunk == chapter_num = 0 /\ chunk_num = 1 /\ ~truthy(progress)
       IN  /\ is_first_chunk' = first_chunk
           /\ combined_audio' = append_content(wavFile, audio_data, first_chunk)
    /\ wavFile' = [exists |-> TRUE, data |-> <<>>]
    /\ pc' = "appendWrite"
    /\ UNCHANGED <<progressFile, runs, faults, exit_code, args, sel, loopv, audio_data,
                   dump_data, thr, hist>>

\* sf.read (or opening the file) raises: nothing was written
AppendError ==
    /\ faults < MaxFaults
    /\ faults' = faults + 1
    /\ pc = "append"
    /\ pc' = "stopSpinner"
    /\ hist' = [hist EXCEPT !.outcome = "append_error", !.jobClean = FALSE]
    /\ UNCHANGED <<files, runs, exit_code, args, sel, loopv, tmp, thr>>

\* sf.write writes the samples and returns
AppendWrite ==
    /\ pc = "appendWrite"
    /\ wavFile' = [exists |-> TRUE, data |-> combined_audio]
    /\ pc' = "save"
    /\ hist' = [hist EXCEPT !.lastAppend = SampleCount(combined_audio),
                            !.appendsRun = IF hist.appendsRun < 2
                                           THEN hist.appendsRun + 1 ELSE 2]
    /\ UNCHANGED <<progressFile, runs, faults, exit_code, args, sel, loopv, tmp, thr>>

\* mutant: the write error is swallowed and the checkpoint save follows
AppendWriteError_Swallowed ==
    /\ faults < MaxFaults
    /\ faults' = faults + 1
    /\ pc = "appendWrite"
    /\ \E k \in 0..(Len(combined_audio) - 1) :
           wavFile' = [exists |-> TRUE, data |-> SubSeq(combined_audio, 1, k)]
    /\ pc' = "save"
    /\ hist' = [hist EXCEPT !.outcome = "append_error", !.jobClean = FALSE]
    /\ UNCHANGED <<progressFile, runs, exit_code, args, sel, loopv, tmp, thr>>

\* sf.write raises part-way (disk full): some leading part was written
AppendWriteError ==
    /\ faults < MaxFaults
    /\ faults' = faults + 1
    /\ pc = "appendWrite"
    /\ \E k \in 0..(Len(combined_audio) - 1) :
           wavFile' = [exists |-> TRUE, data |-> SubSeq(combined_audio, 1, k)]
    /\ pc' = "stopSpinner"
    /\ hist' = [hist EXCEPT !.outcome = "append_error", !.jobClean = FALSE]
    /\ UNCHANGED <<progressFile, runs, exit_code, args, sel, loopv, tmp, thr>>

(***************************************************************************)
(* progress_manager.py, save_progress (called on lines 180-186).           *)
(***************************************************************************)
\* mutant: the completed chunk is stored, not its successor
SaveOpen_Completed ==
    /\ pc = "save"
    /\ dump_data' = progress_data(chapter_num, chunk_num - 1, Len(chunks), time_time,
                                  sorted(selected_indices))
    /\ progressFile' = open_wb
    /\ pc' = "dump"
    /\ UNCHANGED <<wavFile, runs, faults, exit_code, args, sel, loopv, audio_data,
                   combined_audio, is_first_chunk, thr, hist>>

\* lines 6-13: the dict is built and the file opened with 'wb'
SaveOpen ==
    /\ pc = "save"
    /\ dump_data' = progress_data(chapter_num, chunk_num, Len(chunks), time_time,
                                  sorted(selected_indices))
    /\ progressFile' = open_wb
    /\ pc' = "dump"
    /\ UNCHANGED <<wavFile, runs, faults, exit_code, args, sel, loopv, audio_data,
                   combined_audio, is_first_chunk, thr, hist>>

\* open raises: the file is as it was
SaveOpenError ==
    /\ faults < MaxFaults
    /\ faults' = faults + 1
    /\ pc = "save"
    /\ pc' = "stopSpinner"
    /\ hist' = [hist EXCEPT !.outcome = "save_error", !.jobClean = FALSE]
    /\ UNCHANGED <<files, runs, exit_code, args, sel, loopv, tmp, thr>>

\* line 14: pickle.dump
SaveDump ==
    /\ pc = "dump"
    /\ progressFile' = write_dump(progressFile, dump_data)
    /\ pc' = "stopSpinner"
    /\ hist' = [hist EXCEPT !.outcome = "ok", !.saved = hist.saved \cup {Pos}]
    /\ UNCHANGED <<wavFile, runs, faults, exit_code, args, sel, loopv, tmp, thr>>

\* pickle.dump raises: the file stays as open left it
SaveDumpError ==
    /\ faults < MaxFaults
    /\ faults' = faults + 1
    /\ pc = "dump"
    /\ pc' = "stopSpinner"
    /\ hist' = [hist EXCEPT !.outcome = "save_error", !.jobClean = FALSE]
    /\ UNCHANGED <<files, runs, exit_code, args, sel, loopv, tmp, thr>>

(***************************************************************************)
(* The end of a chunk, of a chapter and of the run.                        *)
(***************************************************************************)
\* line 192
StopSpinner ==
    /\ pc = "stopSpinner"
    /\ stop_spinner' = TRUE
    /\ pc' = "join"
    /\ UNCHANGED <<files, runs, faults, exit_code, args, sel, loopv, tmp, stop_audio,
                   spinner, hist>>

\* line 193: join returns once the thread has ended; the for loop advances
JoinSpinner ==
    /\ pc = "join"
    /\ spinner = "exited"
    /\ spinner' = "none"
    /\ chunk_num' = chunk_num + 1
    /\ pc' = "chunk"
    /\ hist' = [hist EXCEPT !.outcome = "none", !.ckptBefore = NoFile,
                            !.wavBefore = NoWav]
    /\ UNCHANGED <<files, runs, faults, exit_code, args, sel, progress, start_chapter,
                   start_chunk, chapter_num, chunks, tmp, stop_spinner, stop_audio>>

\* mutant: the spinner thread clears the cancellation flag when it ends
SpinnerExit_ClearsCancel ==
    /\ spinner = "running"
    /\ stop_spinner
    /\ spinner' = "exited"
    /\ stop_audio' = FALSE
    /\ UNCHANGED <<files, pc, runs, faults, exit_code, args, sel, loopv, tmp,
                   stop_spinner, hist>>

\* SpinnerManager.spinning_wheel, lines 42-46: the loop sees stop_spinner
SpinnerExit ==
    /\ spinner = "running"
    /\ stop_spinner
    /\ spinner' = "exited"
    /\ UNCHANGED <<files, pc, runs, faults, exit_code, args, sel, loopv, tmp,
                   stop_spinner, stop_audio, hist>>

\* lines 195-200
ChapterEnd ==
    /\ pc = "chapterEnd"
    /\ start_chunk' = 0
    /\ chapter_num' = chapter_num + 1
    /\ pc' = "chapter"
    /\ UNCHANGED <<files, runs, faults, exit_code, args, sel, progress, start_chapter,
                   chunk_num, chunks, tmp, thr, hist>>

\* mutant: the progress file is left behind
Cleanup_KeepsCheckpoint ==
    /\ pc = "cleanup"
    /\ pc' = "done"
    /\ exit_code' = 0
    /\ NoLocals
    /\ UNCHANGED <<files, runs, faults, args, thr, hist>>

\* lines 202-208
Cleanup ==
    /\ pc = "cleanup"
    /\ progressFile' = IF ~stop_audio /\ progressFile.exists THEN NoFile
                       ELSE progressFile
    /\ pc' = "done"
    /\ exit_code' = 0
    /\ NoLocals
    /\ UNCHANGED <<wavFile, runs, faults, args, thr, hist>>

(***************************************************************************)
(* Interruptions.                                                          *)
(***************************************************************************)
\* handle_ctrl_c, lines 21-26: the handler runs in the main thread wherever
\* it is, sets both flags and raises SystemExit there; nothing catches it.
\* A file that is open for writing is closed with what it holds.  The
\* handler also runs while the ended main thread waits for the spinner.
Sigint ==
    /\ ~Stopped \/ (pc = "exited" /\ spinner = "running")
    /\ stop_spinner' = TRUE
    /\ stop_audio' = TRUE
    /\ pc' = "exited"
    /\ exit_code' = IF Stopped THEN exit_code ELSE 0
    /\ hist' = IF Stopped THEN hist ELSE Interrupted(hist)
    /\ NoLocals
    /\ UNCHANGED <<files, runs, faults, args, spinner>>

\* the process is killed or the machine stops: its memory is gone; an output
\* file that is being written keeps some leading part of the new content
Crash ==
    /\ ~Stopped \/ (pc = "exited" /\ spinner = "running")
    /\ IF pc = "appendWrite"
       THEN \E k \in 0..(Len(combined_audio) - 1) :
                wavFile' = [exists |-> TRUE, data |-> SubSeq(combined_audio, 1, k)]
       ELSE UNCHANGED wavFile
    /\ pc' = "idle"
    /\ spinner' = "none"
    /\ hist' = IF Stopped THEN hist ELSE Interrupted(hist)
    /\ stop_spinner' = FALSE /\ stop_audio' = FALSE
    /\ exit_code' = -1
    /\ NoLocals
    /\ UNCHANGED <<progressFile, runs, faults, args>>

\* --reselect-chapters is read on line 88 only, and makes a difference only
\* when a progress file is there
ReselectChoices == IF progressFile.exists THEN BOOLEAN ELSE {FALSE}

Next ==
    \/ \E reselect \in ReselectChoices : Start(reselect, max_chunk_words)
    \/ InputError
    \/ LoadExisting
    \/ \E S \in SUBSET (0..(NumChapters - 1)) : SelectConfirm(S)
    \/ SelectDump
    \/ SelectFallback
    \/ SelectFallbackSave
    \/ SelectNone
    \/ SelectCancel
    \/ ResolveStart
    \/ ChapterHead
    \/ ChunkHead
    \/ SynthOk
    \/ SynthError
    \/ SynthExit
    \/ AppendBegin
    \/ AppendError
    \/ AppendWrite
    \/ AppendWriteError
    \/ SaveOpen
    \/ SaveOpenError
    \/ SaveDump
    \/ SaveDumpError
    \/ StopSpinner
    \/ JoinSpinner
    \/ SpinnerExit
    \/ ChapterEnd
    \/ Cleanup
    \/ Sigint
    \/ Crash

Spec == Init /\ [][Next]_vars

(***************************************************************************)
(* Direct calls of append_audio_to_wav, save_progress and load_progress on *)
(* one output path and one checkpoint path, each call running to its       *)
(* return, as tests/test_audio_utils.py and tests/test_progress_manager.py *)
(* make them.                                                              *)
(***************************************************************************)
\* longest output, in appended arrays, that a further array is appended to
MaxBlocks == 2

\* lengths of the appended arrays, in hundreds of samples
CallSamples == {3, 5}

\* arguments of save_progress
CallPositions == {0, 2}
CallChunkIndexes == {0, 5}
CallTotals == {0, 10}
CallSelections == {<<0>>, <<1, 2, 3>>}

\* an array of n hundred samples that comes from no chapter
CallAudio(n) == [ch |-> -1, ck |-> -1, lim |-> 0, n |-> n, job |-> 0]

\* no call is in progress; after CallLoad its result is in progress
BetweenCalls == pc \in {"call", "loaded"}

CallsInit ==
    /\ wavFile = NoWav
    /\ progressFile = NoFile
    /\ pc = "call"
    /\ runs = 0
    /\ faults = 0
    /\ exit_code = -1
    /\ reselect_chapters = FALSE
    /\ max_chunk_words \in Limits
    /\ text = <<>> /\ sentences = <<>>
    /\ test_audio = <<>> /\ gain_linear = f_zero /\ normalized_audio = <<>>
    /\ chapters = <<>>
    /\ selected_indices = {}
    /\ progress = None
    /\ start_chapter = 0 /\ start_chunk = 0
    /\ chapter_num = 0 /\ chunk_num = 0
    /\ chunks = <<>>
    /\ audio_data = NoAudio
    /\ combined_audio = <<>>
    /\ dump_data = None
    /\ is_first_chunk = FALSE
    /\ stop_spinner = FALSE /\ stop_audio = FALSE
    /\ spinner = "none"
    /\ hist = [job |-> 0, jobClean |-> FALSE, jobBase |-> 0, jobLimits |-> {},
               jobSel |-> {},
               saved |-> {}, inflight |-> NoPos,
               synthRun |-> {}, first |-> NoPos, resumed |-> FALSE,
               outcome |-> "none",
               ckptBefore |-> NoFile, wavBefore |-> NoWav,
               startCkpt |-> "none", startWav |-> FALSE,
               appendsRun |-> 0, lastAppend |-> 0]

\* append_audio_to_wav(output_file, audio_data, sample_rate, is_first_chunk);
\* hist.wavBefore is the file as the call found it
CallAppend(n, first_chunk) ==
    /\ BetweenCalls
    /\ first_chunk \/ Len(wavFile.data) < MaxBlocks
    /\ audio_data' = CallAudio(n)
    /\ is_first_chunk' = first_chunk
    /\ wavFile' = append_audio_to_wav(wavFile, CallAudio(n), first_chunk)
    /\ hist' = [hist EXCEPT !.wavBefore = wavFile]
    /\ pc' = "call"
    /\ UNCHANGED <<progressFile, runs, faults, exit_code, args, sel, loopv,
                   combined_audio, dump_data, thr>>

\* save_progress(progress_file, chapter_index, chunk_index, total_chunks,
\* selected_chapters); dump_data keeps the record of the call
CallSave(chapter_index, chunk_index, total_chunks, selected_chapters) ==
    /\ BetweenCalls
    /\ dump_data' = progress_data(chapter_index, chunk_index, total_chunks,
                                  time_time, selected_chapters)
    /\ progressFile' = save_progress(progressFile, chapter_index, chunk_index,
                                     total_chunks, selected_chapters)
    /\ hist' = [hist EXCEPT !.ckptBefore = progressFile]
    /\ pc' = "call"
    /\ UNCHANGED <<wavFile, runs, faults, exit_code, args, sel, loopv, audio_data,
                   combined_audio, is_first_chunk, thr>>

\* load_progress(progress_file)
CallLoad ==
    /\ pc = "call"
    /\ progress' = load_progress(progressFile)
    /\ pc' = "loaded"
    /\ UNCHANGED <<files, runs, faults, exit_code, args, sel, start_chapter,
                   start_chunk, chapter_num, chunk_num, chunks, tmp, thr, hist>>

CallsNext ==
    \/ \E n \in CallSamples, first_chunk \in BOOLEAN : CallAppend(n, first_chunk)
    \/ \E chapter_index \in CallPositions, chunk_index \in CallChunkIndexes,
          total_chunks \in CallTotals, selected_chapters \in CallSelections :
           CallSave(chapter_index, chunk_index, total_chunks, selected_chapters)
    \/ CallLoad

SpecCalls == CallsInit /\ [][CallsNext]_vars

(***************************************************************************)
(* Direct calls of extract_sentences and chunk_text on one text, as        *)
(* tests/test_text_processing.py makes them.  A text is made of up to      *)
(* MaxUnits terminated units and an unterminated rest.                     *)
(***************************************************************************)
\* number of terminated units in a text
MaxUnits == 3

\* n words separated by single spaces, no terminator
RECURSIVE Words(_)
Words(n) == IF n = 0 THEN <<>>
            ELSE IF n = 1 THEN <<"w">> ELSE <<"w", " ">> \o Words(n - 1)

\* a unit: white space or none, then 0, 2, 3 or 7 words, then the terminator;
\* one unit has a line break between its words
Units == {lead \o Words(n) \o <<".">> : lead \in {<<>>, <<"\n", " ">>},
                                        n \in {0, 2, 3, 7}}
             \cup {<<"w", "\n", "w", " ", "w", ".">>}

\* what follows the last terminator
Rests == {<<>>, <<" ">> \o Words(3)}

RECURSIVE Concat(_)
Concat(ss) == IF ss = <<>> THEN <<>> ELSE Head(ss) \o Concat(Tail(ss))

\* the texts chunked
Texts == {Concat(us) \o rest :
              us \in UNION {[1..k -> Units] : k \in 0..MaxUnits}, rest \in Rests}

\* the limits tried: every sentence oversized; 7-word sentences oversized
\* and one 3-word sentence fits; two 3-word sentences fit; a 3-word and a
\* 7-word sentence fit
ChunkLimits == {1, 3, 6, 10}

ChunkInit ==
    /\ wavFile = NoWav
    /\ progressFile = NoFile
    /\ pc = "text"
    /\ runs = 0
    /\ faults = 0
    /\ exit_code = -1
    /\ reselect_chapters = FALSE
    /\ max_chunk_words \in ChunkLimits
    /\ text \in Texts
    /\ sentences = <<>>
    /\ test_audio = <<>> /\ gain_linear = f_zero /\ normalized_audio = <<>>
    /\ chapters = <<>>
    /\ selected_indices = {}
    /\ progress = None
    /\ start_chapter = 0 /\ start_chunk = 0
    /\ chapter_num = 0 /\ chunk_num = 0
    /\ chunks = <<>>
    /\ audio_data = NoAudio
    /\ combined_audio = <<>>
    /\ dump_data = None
    /\ is_first_chunk = FALSE
    /\ stop_spinner = FALSE /\ stop_audio = FALSE
    /\ spinner = "none"
    /\ hist = [job |-> 0, jobClean |-> FALSE, jobBase |-> 0, jobLimits |-> {},
               jobSel |-> {},
               saved |-> {}, inflight |-> NoPos,
               synthRun |-> {}, first |-> NoPos, resumed |-> FALSE,
               outcome |-> "none",
               ckptBefore |-> NoFile, wavBefore |-> NoWav,
               startCkpt |-> "none", startWav |-> FALSE,
               appendsRun |-> 0, lastAppend |-> 0]

\* extract_sentences(text)
ExtractCall ==
    /\ pc = "text"
    /\ sentences' = extract_sentences(text)
    /\ pc' = "extracted"
    /\ UNCHANGED <<files, runs, faults, exit_code, reselect_chapters, max_chunk_words,
                   text, norm, sel, loopv, tmp, thr, hist>>

\* chunk_text(text, max_chunk_words)
ChunkCall ==
    /\ pc = "extracted"
    /\ chunks' = chunk_text(text, max_chunk_words)
    /\ pc' = "chunked"
    /\ UNCHANGED <<files, runs, faults, exit_code, args, sel, progress, start_chapter,
                   start_chunk, chapter_num, chunk_num, tmp, thr, hist>>

ChunkNext ==
    \/ ExtractCall
    \/ ChunkCall

SpecChunk == ChunkInit /\ [][ChunkNext]_vars

(***************************************************************************)
(* Runs of convert_text_to_audio that differ in max_chunk_words.  Nothing  *)
(* fails, and a process is killed only between two chunks, so that the     *)
(* output and the checkpoint agree whenever a run starts.                  *)
(***************************************************************************)
\* values of --max-chunk-words: each sentence of chapter 0 is a chunk; its
\* first two sentences share a chunk
LimitChoices == {3, 6}

\* the process is killed at line 154, before the next chunk is taken
KillBetweenChunks ==
    /\ pc = "chunk"
    /\ Crash

LimitsNext ==
    \/ \E lim \in LimitChoices : Start(FALSE, lim)
    \/ LoadExisting
    \/ \E S \in SUBSET (0..(NumChapters - 1)) : SelectConfirm(S)
    \/ SelectDump
    \/ ResolveStart
    \/ ChapterHead
    \/ ChunkHead
    \/ SynthOk
    \/ AppendBegin
    \/ AppendWrite
    \/ SaveOpen
    \/ SaveDump
    \/ StopSpinner
    \/ JoinSpinner
    \/ SpinnerExit
    \/ ChapterEnd
    \/ Cleanup
    \/ KillBetweenChunks

SpecLimits == Init /\ [][LimitsNext]_vars

(***************************************************************************)
(* Restarting until the job is complete.  The user always confirms a       *)
(* selection, no engine call ends the process, and a kill or Ctrl+C comes  *)
(* only while another start is left, so only finitely often.  A process    *)
(* that can take a step takes one, and so does the spinner thread.         *)
(***************************************************************************)
\* a kill, while the command can still be run again
LiveCrash == runs < MaxRuns /\ Crash

\* Ctrl+C, while the command can still be run again
LiveSigint == runs < MaxRuns /\ Sigint

\* the steps of the main thread but the chapter head, the start of the
\* command included
MainStep ==
    \/ Start(FALSE, max_chunk_words)
    \/ LoadExisting
    \/ \E S \in SUBSET (0..(NumChapters - 1)) : SelectConfirm(S)
    \/ SelectDump
    \/ SelectFallback
    \/ SelectFallbackSave
    \/ ResolveStart
    \/ ChunkHead
    \/ SynthOk
    \/ SynthError
    \/ AppendBegin
    \/ AppendError
    \/ AppendWrite
    \/ AppendWriteError
    \/ SaveOpen
    \/ SaveOpenError
    \/ SaveDump
    \/ SaveDumpError
    \/ StopSpinner
    \/ JoinSpinner
    \/ ChapterEnd
    \/ Cleanup

LiveNext ==
    \/ MainStep
    \/ ChapterHead
    \/ SpinnerExit
    \/ LiveCrash
    \/ LiveSigint

\* ChapterHead can be taken exactly when pc = "chapter" and leaves that
\* position, so its weak fairness is that pc is not "chapter" forever
SpecLive ==
    /\ Init
    /\ [][LiveNext]_vars
    /\ WF_vars(MainStep)
    /\ []<>(pc # "chapter")
    /\ WF_vars(SpinnerExit)

(***************************************************************************)
(* The whole program with both threads taking their steps: whatever the    *)
(* main thread or the spinner thread can do, it does in the end.  Nothing  *)
(* is asked of the user's Ctrl+C, of a kill, or of the engine's failures.  *)
(***************************************************************************)
SpecThreads ==
    /\ Init
    /\ [][Next]_vars
    /\ WF_vars(MainStep)
    /\ []<>(pc # "chapter")
    /\ WF_vars(SpinnerExit)

(***************************************************************************)
(* Direct calls of normalize_audio_level on one array, as                  *)
(* tests/test_audio_utils.py makes them.  The arrays are empty, one        *)
(* sample, or two samples followed by silence: the gain alone brings the   *)
(* peak above 0.95 only when the peak is more than 9.5 times the RMS.      *)
(***************************************************************************)
\* longest array
MaxSamples == 128

\* sample values: silence, and quiet and loud samples of either sign
Amplitudes == {<<m, e>> : m \in {128, 150, 181, 200, 255}, e \in {-10, -8}}
SampleValues == Amplitudes \cup {<<-a[1], a[2]>> : a \in Amplitudes} \cup {f_zero}

Silence(n) == [i \in 1..n |-> f_zero]

TestAudios ==
    {<<>>}
        \cup {<<a>> : a \in SampleValues}
        \cup {<<a, b>> \o Silence(n - 2) :
                  a \in SampleValues, b \in SampleValues,
                  n \in {2, MaxSamples - 32, MaxSamples}}

NormInit ==
    /\ wavFile = NoWav
    /\ progressFile = NoFile
    /\ pc = "audio"
    /\ runs = 0
    /\ faults = 0
    /\ exit_code = -1
    /\ reselect_chapters = FALSE
    /\ max_chunk_words \in Limits
    /\ text = <<>> /\ sentences = <<>>
    /\ test_audio \in TestAudios
    /\ gain_linear = f_zero
    /\ normalized_audio = <<>>
    /\ chapters = <<>>
    /\ selected_indices = {}
    /\ progress = None
    /\ start_chapter = 0 /\ start_chunk = 0
    /\ chapter_num = 0 /\ chunk_num = 0
    /\ chunks = <<>>
    /\ audio_data = NoAudio
    /\ combined_audio = <<>>
    /\ dump_data = None
    /\ is_first_chunk = FALSE
    /\ stop_spinner = FALSE /\ stop_audio = FALSE
    /\ spinner = "none"
    /\ hist = [job |-> 0, jobClean |-> FALSE, jobBase |-> 0, jobLimits |-> {},
               jobSel |-> {},
               saved |-> {}, inflight |-> NoPos,
               synthRun |-> {}, first |-> NoPos, resumed |-> FALSE,
               outcome |-> "none",
               ckptBefore |-> NoFile, wavBefore |-> NoWav,
               startCkpt |-> "none", startWav |-> FALSE,
               appendsRun |-> 0, lastAppend |-> 0]

\* normalized = normalize_audio_level(test_audio)
NormalizeCall ==
    /\ pc = "audio"
    /\ \E g \in gain_choices(test_audio) :
           /\ gain_linear' = g
           /\ normalized_audio' = normalize_audio_level(test_audio, g)
    /\ pc' = "normalized"
    /\ UNCHANGED <<files, runs, faults, exit_code, reselect_chapters, max_chunk_words,
                   text, sentences, test_audio, sel, loopv, tmp, thr, hist>>

NormNext == NormalizeCall

SpecNorm == NormInit /\ [][NormNext]_vars

(***************************************************************************)
(* Properties.                                                             *)
(*                                                                         *)
(* hist records, per job (a job starts when a chapter selection is saved): *)
(* jobSel the selection, jobBase the samples the output held at that time, *)
(* jobClean whether every interruption so far fell outside the steps       *)
(* between the rewrite of the output file and the end of the checkpoint    *)
(* save and no engine or file error was raised, saved the positions whose  *)
(* checkpoint save completed, inflight the position in flight at the last  *)
(* interruption; per run: synthRun / first the positions the engine was    *)
(* invoked on, resumed whether the stored selection was reused, startCkpt  *)
(* and startWav what was on disk at the start; per chunk: outcome and the  *)
(* two files as they were when the chunk began.                            *)
(***************************************************************************)
NumChunks(ch, lim) == Len(chunk_text(Book[ch + 1], lim))

RECURSIVE ChapterSamples(_, _, _)
ChapterSamples(ch, lim, k) ==
    IF k = 0 THEN 0
    ELSE Samples(chunk_text(Book[ch + 1], lim)[k]) + ChapterSamples(ch, lim, k - 1)

\* samples an uninterrupted run over the chapters in S writes
RECURSIVE UninterruptedSamples(_, _)
UninterruptedSamples(S, lim) ==
    IF S = {} THEN 0
    ELSE LET ch == CHOOSE x \in S : TRUE
         IN  ChapterSamples(ch, lim, NumChunks(ch, lim))
             + UninterruptedSamples(S \ {ch}, lim)

\* C1: a job that was interrupted only after whole chunks (never between the
\* rewrite of the output and the end of the checkpoint save), met no engine
\* or file error and was resumed without reselection ends with the samples
\* an uninterrupted run adds to what the output held when the job began.
C1_IdempotentResume ==
    (pc = "done" /\ hist.jobClean)
        => SampleCount(wavFile.data)
               = hist.jobBase + UninterruptedSamples(hist.jobSel, max_chunk_words)

\* a resumed run that began at chunk 1 of chapter 0 has finished both chapters
C1_Witness ==
    /\ pc = "done" /\ hist.jobClean /\ hist.resumed
    /\ hist.first = <<0, 1>> /\ hist.jobSel = {0, 1}
    /\ SampleCount(wavFile.data) = UninterruptedSamples({0, 1}, max_chunk_words)

\* C2: the audio of a chunk of a job is in the output at most once.
C2_ExactlyOnce ==
    \A i, j \in 1..Len(wavFile.data) :
        i # j => wavFile.data[i] # wavFile.data[j]

\* C3: once the process has been interrupted the output holds at least the
\* samples it held after the last completed append.
C3_NoAudioLost ==
    pc \in {"idle", "exited"} => SampleCount(wavFile.data) >= hist.lastAppend

\* C4: the engine is never invoked on a position whose checkpoint save
\* completed earlier in the job, and a resumed run that finishes has invoked
\* the engine on the position that was in flight at the interruption.
C4_ReplayRule ==
    /\ pc = "synth" => Pos \notin hist.saved
    /\ (pc = "done" /\ hist.resumed /\ hist.inflight # NoPos)
           => hist.inflight \in hist.synthRun

\* chunk 0 of chapter 0 was saved, chunk 1 was in flight at the crash; the
\* resumed run began with chunk 1 and finished
C4_Witness ==
    /\ pc = "done" /\ hist.resumed
    /\ <<0, 0>> \in hist.saved /\ hist.inflight = <<0, 1>>
    /\ hist.first = <<0, 1>>

\* C5: after a chunk at zero-based position (c, j) was processed successfully
\* the stored checkpoint is (c, j + 1, chunks of chapter c, the selection).
C5_CheckpointNamesSuccessor ==
    (hist.outcome = "ok" /\ pc \in {"stopSpinner", "join"})
        => LET stored == load_progress(progressFile)
           IN  /\ truthy(stored)
               /\ stored.chapter_index = Pos[1]
               /\ stored.chunk_index = Pos[2] + 1
               /\ stored.total_chunks
                      = NumChunks(chapters[chapter_num + 1], max_chunk_words)
               /\ stored.selected_chapters = sorted(selected_indices)
               /\ set_of(stored.selected_chapters) = hist.jobSel

\* the second chunk of the first selected chapter was processed
C5_Witness ==
    /\ hist.outcome = "ok" /\ pc = "join" /\ Pos = <<0, 1>>
    /\ load_progress(progressFile).chunk_index = 2
    /\ load_progress(progressFile).total_chunks = 2

\* lexicographic order on positions
PosLeq(p, q) == p[1] < q[1] \/ (p[1] = q[1] /\ p[2] <= q[2])

\* the first existing position at or after chunk j of chapter c of the
\* filtered list chs: (c, j) itself when chapter c has a chunk j, otherwise
\* chunk 0 of the next chapter that has chunks
RECURSIVE FirstAtOrAfter(_, _, _, _)
FirstAtOrAfter(chs, c, j, lim) ==
    IF c >= Len(chs) THEN NoPos
    ELSE IF j < NumChunks(chs[c + 1], lim) THEN <<c, j>>
    ELSE FirstAtOrAfter(chs, c + 1, 0, lim)

\* the run is in the main loop with the checkpoint of line 113 loaded
Resuming ==
    pc \notin {"idle", "load", "select", "selFallback", "selDump", "resolve", "done",
               "exited"}
            /\ truthy(progress)

\* C6 as stated: with a checkpoint (c, j) loaded, the first chunk the run
\* processes is (c, j).
C6_FirstChunkIsCheckpoint ==
    (Resuming /\ hist.first # NoPos)
        => hist.first = <<progress.chapter_index, progress.chunk_index>>

\* C6, amended: with a checkpoint (c, j) loaded the run processes no position
\* before (c, j); the first chunk it processes is (c, j) when chapter c has a
\* chunk j and otherwise chunk 0 of the next chapter that has chunks; in
\* every chapter after c the chunks are processed from index 0 on.
C6_ResumePoint ==
    Resuming =>
        LET c == progress.chapter_index
            j == progress.chunk_index
        IN  /\ \A p \in hist.synthRun : PosLeq(<<c, j>>, p)
            /\ (pc = "synth" /\ hist.first = NoPos)
                   => Pos = FirstAtOrAfter(chapters, c, j, max_chunk_words)
            /\ \A p \in hist.synthRun :
                   p[1] > c => \A k \in 0..p[2] : <<p[1], k>> \in hist.synthRun

\* a run resumed at (0, 1) has gone on to chunk 0 of chapter 1
C6_Witness ==
    /\ Resuming
    /\ progress.chapter_index = 0 /\ progress.chunk_index = 1
    /\ hist.first = <<0, 1>>
    /\ <<1, 0>> \in hist.synthRun

\* C7: in a run that started without a checkpoint the first successful
\* append writes a fresh file that holds that chunk alone.
C7_FreshStartOverwrites ==
    (pc = "save" /\ hist.startCkpt = "absent" /\ hist.appendsRun = 1)
        => wavFile = [exists |-> TRUE, data |-> <<audio_data>>]

\* C8: is_first_chunk is true only for the first chunk of a run that began
\* with neither a checkpoint nor an output file, and in a run that began with
\* a checkpoint every append keeps what the output held.
C8_NoOverwriteOnResume ==
    /\ is_first_chunk
           => (hist.startCkpt = "absent" /\ ~hist.startWav /\ hist.appendsRun <= 1
               /\ Pos = <<0, 0>>)
    /\ (pc \in {"appendWrite", "save"} /\ hist.startCkpt = "ok"
            /\ hist.wavBefore.exists)
           => combined_audio = hist.wavBefore.data \o <<audio_data>>

\* a run that began with a checkpoint at (0, 0) and an output holding audio
\* has appended chunk 0 of chapter 0 after that audio
C8_Witness ==
    /\ pc = "save" /\ hist.startCkpt = "ok" /\ Pos = <<0, 0>>
    /\ Len(hist.wavBefore.data) >= 1
    /\ wavFile.data = hist.wavBefore.data \o <<audio_data>>

\* C9: after a failed engine call the run goes on to the end of the chunk
\* with both files as they were.
C9_EngineFailureContinues ==
    hist.outcome \in {"engine_error", "engine_exit"}
        => /\ pc \in {"stopSpinner", "join"}
           /\ wavFile = hist.wavBefore
           /\ progressFile = hist.ckptBefore

\* the checkpoint was rewritten since the chunk began
Advanced == pc \in {"synth", "append", "appendWrite", "save", "dump",
                    "stopSpinner", "join"}
            /\ progressFile # hist.ckptBefore

\* C10: after a failed append the checkpoint is what it was before the chunk,
\* and the checkpoint is rewritten for a chunk only after its append
\* completed.
C10_AppendFailureKeepsCheckpoint ==
    /\ hist.outcome = "append_error" => progressFile = hist.ckptBefore
    /\ Advanced
           => /\ pc \in {"dump", "stopSpinner", "join"}
              /\ hist.outcome # "append_error"
              /\ wavFile = [exists |-> TRUE, data |-> combined_audio]
              /\ combined_audio[Len(combined_audio)] = audio_data

\* the append of the second chunk failed after the first chunk's checkpoint
C10_Witness ==
    /\ hist.outcome = "append_error" /\ pc = "join"
    /\ truthy(load_progress(progressFile))
    /\ load_progress(progressFile).chunk_index = 1
    /\ Pos = <<0, 1>>

\* chunks of book chapter ch whose audio is in the output file
ChunksPresent(ch) ==
    {wavFile.data[i].ck : i \in {k \in 1..Len(wavFile.data) : wavFile.data[k].ch = ch}}

\* C11: whenever a checkpoint can be loaded, its chunk index is at most the
\* number of chunks of the checkpoint's chapter whose audio is in the output.
\* Refuted: a chunk whose synthesis or append failed is skipped, and the save
\* after the next chunk counts it.
C11_CheckpointWithinOutput ==
    LET stored == load_progress(progressFile)
    IN  (truthy(stored) /\ stored.chapter_index < Len(stored.selected_chapters))
            => stored.chunk_index
                   <= Cardinality(ChunksPresent(
                          stored.selected_chapters[stored.chapter_index + 1]))

\* the position saved last in the job
RECURSIVE MaxPos(_)
MaxPos(S) ==
    LET p == CHOOSE x \in S : TRUE
    IN  IF S = {p} THEN p
        ELSE LET q == MaxPos(S \ {p}) IN IF PosLeq(p, q) THEN q ELSE p

\* the process ended in handle_ctrl_c while a chunk was being processed
CancelledInChunk == pc = "exited" /\ stop_audio /\ hist.inflight # NoPos

\* C12: after a cancellation the checkpoint is still there and names the
\* successor of the last chunk whose save completed.  Refuted: Ctrl+C between
\* the open and the dump of save_progress leaves an empty checkpoint file.
C12_CancelKeepsResumePoint ==
    CancelledInChunk
        => LET stored == load_progress(progressFile)
           IN  /\ truthy(stored)
               /\ hist.saved # {}
                      => <<stored.chapter_index, stored.chunk_index - 1>>
                             = MaxPos(hist.saved)

\* C13: cancellation takes effect at chunk boundaries only, so a process that
\* ended on a cancellation request was not inside a chunk.  Refuted: the
\* handler raises SystemExit wherever the main thread is.
C13_CancelAtChunkBoundary ==
    (pc = "exited" /\ stop_audio) => hist.inflight = NoPos

\* C14: a run that went through every chunk of every selected chapter ends
\* with no checkpoint file, and no step taken by or after a cancellation
\* request removes a checkpoint file.
C14_CheckpointRemovedUnlessCancelled ==
    /\ [](pc = "done" => ~progressFile.exists)
    /\ [][((stop_audio \/ stop_audio') /\ progressFile.exists)
              => progressFile'.exists]_vars

\* a run whose chunks were saved has finished and removed its checkpoint
C14_Witness ==
    /\ pc = "done" /\ exit_code = 0
    /\ ~progressFile.exists
    /\ hist.saved # {} /\ wavFile.exists

\* C15: the audio in the output file is in chapter order and, within a
\* chapter, in chunk order.  Refuted: a run with a new selection appends to
\* the output of the earlier job, so an earlier chapter can follow a later one.
C15_OutputInPositionOrder ==
    \A i, j \in 1..Len(wavFile.data) :
        i < j => PosLeq(<<wavFile.data[i].ch, wavFile.data[i].ck>>,
                        <<wavFile.data[j].ch, wavFile.data[j].ck>>)

\* C16: the sample count of the output is the sum of the appends that
\* returned: a step that does not leave a rewrite in progress either keeps the
\* count the file had before the rewrite began, or is the return of an append
\* and adds that chunk's samples to it.  Refuted: an interrupted or failed
\* rewrite leaves a leading part of the content only.
C16_SampleCountIsSumOfAppends ==
    [][LET before == IF pc = "appendWrite" THEN hist.wavBefore ELSE wavFile
       IN  pc' # "appendWrite"
               => \/ SampleCount(wavFile'.data) = SampleCount(before.data)
                  \/ /\ pc = "appendWrite" /\ pc' = "save"
                     /\ SampleCount(wavFile'.data)
                            = SampleCount(before.data) + audio_data.n]_vars

\* an append call has returned
Appended == BetweenCalls /\ audio_data # NoAudio

\* C17 as stated: after every call of append the file holds the samples it
\* held before the call (none when it did not exist) and the new ones.
C17_AppendAddsSamples ==
    Appended => SampleCount(wavFile.data)
                    = SampleCount(hist.wavBefore.data) + audio_data.n

\* C17, amended: after a call with isFirstChunk false the file holds the
\* samples it held before the call (none when it did not exist) and the new
\* ones; after a call with isFirstChunk true it holds the new ones only.
C17_AppendAddsUnlessFirst ==
    Appended => SampleCount(wavFile.data)
                    = (IF is_first_chunk THEN 0
                       ELSE SampleCount(hist.wavBefore.data)) + audio_data.n

\* 500 samples written as first chunk to a fresh path, then 300 appended: 800
C17_Witness ==
    /\ Appended /\ ~is_first_chunk /\ audio_data.n = 3
    /\ hist.wavBefore = [exists |-> TRUE, data |-> <<CallAudio(5)>>]
    /\ SampleCount(wavFile.data) = 8

\* C18: after a call with isFirstChunk true, or on a path without a file, the
\* file exists and holds exactly the new samples.
C18_FirstChunkWritesNewFile ==
    (Appended /\ (is_first_chunk \/ ~hist.wavBefore.exists))
        => wavFile = [exists |-> TRUE, data |-> <<audio_data>>]

\* a first-chunk call on a file that held audio has replaced its content
C18_Witness ==
    /\ Appended /\ is_first_chunk
    /\ Len(hist.wavBefore.data) = 2
    /\ wavFile = [exists |-> TRUE, data |-> <<audio_data>>]

\* C19: a load after any sequence of saves returns the arguments of the most
\* recent save with a timestamp, and the file holds that record alone.
C19_LoadReturnsLastSave ==
    (pc = "loaded" /\ dump_data # None)
        => /\ truthy(progress)
           /\ progress.chapter_index = dump_data.chapter_index
           /\ progress.chunk_index = dump_data.chunk_index
           /\ progress.total_chunks = dump_data.total_chunks
           /\ progress.selected_chapters = dump_data.selected_chapters
           /\ progress.timestamp = time_time
           /\ progressFile.bytes = pickle_dump(dump_data)

\* (2, 5, 10, [1, 2, 3]) saved over an earlier, different record and loaded
C19_Witness ==
    /\ pc = "loaded"
    /\ progress = progress_data(2, 5, 10, time_time, <<1, 2, 3>>)
    /\ pickle_ok(hist.ckptBefore.bytes)
    /\ pickle_load(hist.ckptBefore.bytes) # progress

\* the main thread is in the loop over the chapters
InLoop == pc \in {"chapter", "chunk", "synth", "append", "appendWrite", "save",
                  "dump", "stopSpinner", "join", "chapterEnd", "cleanup"}

\* C20: load_progress returns None for a path without a file and for a file
\* that does not unpickle, and a run that found either goes through the
\* chapter selection and starts at chapter 0, chunk 0.
C20_UnreadableIsAbsent ==
    /\ CkptKind(progressFile) \in {"absent", "corrupt"}
           => load_progress(progressFile) = None
    /\ hist.startCkpt \in {"absent", "corrupt"}
           => /\ ~hist.resumed
              /\ InLoop => (start_chapter = 0 /\ hist.first \in {NoPos, <<0, 0>>})
              /\ pc = "chapter" /\ chapter_num = 0 => start_chunk = 0

\* a run that found a truncated checkpoint and earlier output is at chunk 0
\* of its first chapter
C20_Witness ==
    /\ hist.startCkpt = "corrupt" /\ hist.startWav
    /\ pc = "synth" /\ Pos = <<0, 0>>

\* C21: while a chunk is processed, a load of the checkpoint path returns the
\* record stored when the chunk began or the record being saved, nothing
\* else.  Refuted: save_progress empties the file before it dumps.
C21_SaveIsAtomic ==
    (InChunk /\ CkptKind(hist.ckptBefore) = "ok")
        => /\ CkptKind(progressFile) = "ok"
           /\ load_progress(progressFile) \in {load_progress(hist.ckptBefore), dump_data}

\* C22: when the save of a chunk fails after its audio was appended, the run
\* goes on, the audio stays in the output, and the checkpoint still names that
\* chunk or an earlier one.  Refuted: a dump that fails after the file was
\* opened leaves a checkpoint that names nothing.
C22_SaveFailureKeepsCheckpoint ==
    hist.outcome = "save_error"
        => /\ pc \in {"stopSpinner", "join"}
           /\ wavFile = [exists |-> TRUE, data |-> combined_audio]
           /\ combined_audio[Len(combined_audio)] = audio_data
           /\ LET stored == load_progress(progressFile)
              IN  /\ truthy(stored)
                  /\ PosLeq(<<stored.chapter_index, stored.chunk_index>>, Pos)

\* chunk_text has returned
Chunked == pc = "chunked"

\* sentences joined by single spaces
RECURSIVE SingleSpaceJoin(_)
SingleSpaceJoin(ss) ==
    IF ss = <<>> THEN <<>>
    ELSE IF Len(ss) = 1 THEN ss[1]
    ELSE SingleSpaceJoin(SubSeq(ss, 1, Len(ss) - 1)) \o <<" ">> \o ss[Len(ss)]

\* number of sentence terminators in a chunk
NumTerminators(chunk) == Cardinality({i \in 1..Len(chunk) : chunk[i] = "."})

\* a chunk up to its first terminator
FirstSentence(chunk) ==
    SubSeq(chunk, 1, CHOOSE i \in 1..Len(chunk) :
                         chunk[i] = "." /\ \A j \in 1..(i - 1) : chunk[j] # ".")

\* the chunks are, in order, the joins of consecutive runs of the sentences
\* that use every sentence once
RECURSIVE Covers(_, _)
Covers(chs, sents) ==
    IF chs = <<>> THEN sents = <<>>
    ELSE LET k == NumTerminators(chs[1])
         IN  /\ k >= 1 /\ k <= Len(sents)
             /\ chs[1] = SingleSpaceJoin(SubSeq(sents, 1, k))
             /\ Covers(Tail(chs), SubSeq(sents, k + 1, Len(sents)))

RECURSIVE TotalWords(_)
TotalWords(ss) == IF ss = <<>> THEN 0 ELSE word_count(Head(ss)) + TotalWords(Tail(ss))

\* C23: every chunk is the single-space join of a run of whole retained
\* sentences and ends with the terminator; the chunks in order hold every
\* retained sentence once, in the original order.
C23_SentenceIntegrity ==
    Chunked => /\ \A i \in 1..Len(chunks) : chunks[i][Len(chunks[i])] = "."
               /\ Covers(chunks, sentences)

\* three sentences, the first two share a chunk
C23_Witness ==
    /\ Chunked /\ Len(sentences) = 3 /\ Len(chunks) = 2
    /\ NumTerminators(chunks[1]) = 2

\* C24: a chunk of several sentences has at most max_chunk_words words; a
\* chunk above the limit is one sentence; a sentence above the limit is a
\* chunk of its own.
C24_SizeRespect ==
    Chunked => /\ \A i \in 1..Len(chunks) :
                      /\ NumTerminators(chunks[i]) > 1
                             => word_count(chunks[i]) <= max_chunk_words
                      /\ word_count(chunks[i]) > max_chunk_words
                             => NumTerminators(chunks[i]) = 1
               /\ \A k \in 1..Len(sentences) :
                      word_count(sentences[k]) > max_chunk_words
                          => \E i \in 1..Len(chunks) : chunks[i] = sentences[k]

\* a chunk of two sentences was flushed before an oversized sentence
C24_Witness ==
    /\ Chunked /\ Len(chunks) >= 2
    /\ NumTerminators(chunks[1]) = 2
    /\ word_count(chunks[2]) > max_chunk_words

\* the text split on the terminator, each part trimmed and terminated again
Segments(t) ==
    LET parts == split_period(replace_newlines(t))
    IN  [i \in 1..Len(parts) |-> strip(parts[i]) \o <<".">>]

AtLeastThreeWords(s) == word_count(s) >= 3

\* C25: extract_sentences returns the segments of at least 3 words, in
\* order; an empty text has no sentences and no chunks.
C25_ExtractKeepsLongSegments ==
    /\ pc \in {"extracted", "chunked"}
           => sentences = SelectSeq(Segments(text), AtLeastThreeWords)
    /\ (text = <<>> /\ pc \in {"extracted", "chunked"}) => sentences = <<>>
    /\ (text = <<>> /\ Chunked) => chunks = <<>>

\* of three segments only the middle one, of three words over two lines, is
\* kept, its line break turned into a space
C25_Witness ==
    /\ pc = "extracted"
    /\ text = Words(2) \o <<".">> \o <<"w", "\n", "w", " ", "w", ".">>
                  \o <<"\n", " ">> \o Words(2) \o <<".">>
    /\ sentences = <<Words(3) \o <<".">> >>

\* C26 as stated: consecutive chunks could not have been merged at the first
\* sentence of the later one, and sentences that fit the limit together give
\* exactly one chunk.
C26_GreedyMaximal ==
    Chunked => /\ \A i \in 1..(Len(chunks) - 1) :
                      word_count(chunks[i]) + word_count(FirstSentence(chunks[i + 1]))
                          > max_chunk_words
               /\ TotalWords(sentences) <= max_chunk_words
                      => chunks = <<SingleSpaceJoin(sentences)>>

\* C26, amended: the same, the single chunk being there when at least one
\* sentence was retained; with no retained sentence there is no chunk.
C26_GreedyMaximalNonEmpty ==
    Chunked => /\ \A i \in 1..(Len(chunks) - 1) :
                      word_count(chunks[i]) + word_count(FirstSentence(chunks[i + 1]))
                          > max_chunk_words
               /\ (sentences # <<>> /\ TotalWords(sentences) <= max_chunk_words)
                      => chunks = <<SingleSpaceJoin(sentences)>>
               /\ sentences = <<>> => chunks = <<>>

\* two sentences fill the first chunk to the limit, the third starts the next
C26_Witness ==
    /\ Chunked /\ max_chunk_words = 6
    /\ Len(chunks) = 2
    /\ word_count(chunks[1]) = 6 /\ word_count(chunks[2]) = 3

\* the checkpoint holds a selection and reselection was not asked for
ReuseStored ==
    /\ ~reselect_chapters
    /\ truthy(load_progress(progressFile))
    /\ load_progress(progressFile).selected_chapters # <<>>

\* the process goes on to its next step instead of being interrupted
GoesOn == ~(pc' \in {"exited", "idle"})

\* C27: with a stored non-empty selection and no reselection the run goes to
\* the main loop without the selection collaborator and without touching the
\* checkpoint, and works on the chapters at the stored indices for the rest
\* of the run; otherwise it goes to the selection collaborator.
C27_SelectionAtStart ==
    [][/\ (pc = "load" /\ GoesOn)
              => IF ReuseStored
                 THEN /\ pc' = "resolve"
                      /\ progressFile' = progressFile
                      /\ chapters' = sorted(set_of(
                             load_progress(progressFile).selected_chapters))
                 ELSE pc' = "select"
       /\ (pc = "resolve" /\ hist.resumed) => progressFile' = progressFile
       /\ (hist.resumed /\ GoesOn /\ pc' # "done")
              => /\ ~(pc' \in {"select", "selFallback", "selDump"})
                 /\ chapters' = chapters]_vars

\* a run that reused the stored selection of the second chapter alone is
\* synthesising a chunk
C27_Witness ==
    /\ hist.resumed /\ pc = "synth"
    /\ chapters = <<1>>
    /\ chunks = chunk_text(Book[2], max_chunk_words)

\* C28 as stated: when the user selects no chapter or cancels, the process
\* ends at once and the checkpoint file is as it was.
C28_SelectionErrorTerminates ==
    [][(pc = "select" /\ pc' \in {"exited", "selFallback"})
           => /\ pc' = "exited"
              /\ progressFile' = progressFile
              /\ wavFile' = wavFile]_vars

\* C28, amended: an empty answer in the checkbox prompt and a cancelled
\* selection end the process with both files as they were; in simple mode an
\* input that names no valid chapter selects every chapter, and that selection
\* is saved with position (0, 0).
C28_SelectionErrorOrFallback ==
    [][/\ (pc = "select" /\ pc' = "exited")
              => /\ exit_code' \in {0, 1}
                 /\ progressFile' = progressFile
                 /\ wavFile' = wavFile
       /\ (pc = "select" /\ pc' = "selFallback")
              => /\ selected_indices' = 0..(NumChapters - 1)
                 /\ progressFile' = progressFile
       /\ (pc = "selFallback" /\ GoesOn)
              => /\ pc' = "selDump"
                 /\ dump_data' = progress_data(0, 0, 0, time_time,
                                               sorted(0..(NumChapters - 1)))]_vars

\* a reselection over an existing checkpoint ended with no chapter selected
C28_Witness ==
    /\ pc = "exited" /\ exit_code = 1
    /\ reselect_chapters /\ hist.startCkpt = "ok"
    /\ CkptKind(progressFile) = "ok"
    /\ load_progress(progressFile).chunk_index > 0

\* C29: an invocation whose input is missing, is not an EPUB or has no
\* chapter ends with an error and leaves the checkpoint file and the output
\* file as they were, existing or not.
C29_InputErrorTouchesNoFile ==
    [][hist'.outcome = "input_error"
           => /\ pc' = "exited" /\ exit_code' = 1
              /\ progressFile' = progressFile
              /\ wavFile' = wavFile]_vars

\* an invocation with such an input ended while a checkpoint and an
\* output of an earlier run are on disk
C29_Witness ==
    /\ hist.outcome = "input_error" /\ pc = "exited"
    /\ CkptKind(progressFile) = "ok"
    /\ wavFile.exists /\ wavFile.data # <<>>

\* C30: outside the window between a chunk's append and its save, a readable
\* checkpoint with chapter index 0 and chunk index 0 means that the output
\* holds no audio of the current job.
C30_ZeroCheckpointMeansNoAudio ==
    LET stored == load_progress(progressFile)
    IN  (/\ ~MidChunk
         /\ truthy(stored)
         /\ stored.chapter_index = 0 /\ stored.chunk_index = 0)
            => \A i \in 1..Len(wavFile.data) : wavFile.data[i].job # hist.job

\* normalize_audio_level has returned
Normalized == pc = "normalized"

\* the array after the gain of line 24, before the clipping guard
Gained == [i \in 1..Len(test_audio) |-> f_mul(test_audio[i], gain_linear)]

\* the array is returned as it came: it is empty or its RMS is zero
Untouched == Len(test_audio) = 0 \/ rms_of(test_audio) = f_zero

\* C31 as stated: the peak of the result is at most 0.95, is 0.95 when the
\* gain alone gives more, and an empty or silent array comes back unchanged.
C31_PeakAtMostClip ==
    Normalized
        => /\ test_audio # <<>> => ~f_gt(peak(normalized_audio), ClipPeak)
           /\ (~Untouched /\ f_gt(peak(Gained), ClipPeak))
                  => peak(normalized_audio) = ClipPeak
           /\ Untouched => normalized_audio = test_audio

\* C31, amended: the same with the peak of a rescaled result within one unit
\* in the last place of 0.95, above or below.
C31_PeakWithinRounding ==
    Normalized
        => /\ test_audio # <<>> => ~f_gt(peak(normalized_audio), f_succ(ClipPeak))
           /\ (~Untouched /\ f_gt(peak(Gained), ClipPeak))
                  => peak(normalized_audio)
                         \in {f_pred(ClipPeak), ClipPeak, f_succ(ClipPeak)}
           /\ (~Untouched /\ ~f_gt(peak(Gained), ClipPeak))
                  => normalized_audio = Gained
           /\ Untouched => normalized_audio = test_audio

\* a spike in silence was rescaled and its peak is one unit above 0.95
C31_Witness ==
    /\ Normalized
    /\ Len(test_audio) = MaxSamples
    /\ f_gt(peak(Gained), ClipPeak)
    /\ peak(normalized_audio) = f_succ(ClipPeak)

\* C32: a step of the spinner thread is taken with the stop flag set and
\* changes neither file, nor the position of the main thread, nor a flag.
C32_SpinnerWritesNothing ==
    [][(spinner = "running" /\ spinner' = "exited")
           => /\ stop_spinner
              /\ UNCHANGED <<wavFile, progressFile, pc, chapter_num, chunk_num,
                             stop_audio, stop_spinner>>]_vars

\* the spinner thread ended after the interrupt handler had ended the main
\* thread in the middle of a chunk
C32_Witness ==
    /\ spinner = "exited" /\ pc = "exited"
    /\ stop_audio /\ stop_spinner
    /\ wavFile.exists /\ progressFile.exists

\* C33: in the chapter the checkpoint names, the loop starts behind as many
\* chunks as the stored chunk index says, whether or not the stored total is
\* the number of chunks the chapter has under the limit of this run.
C33_StoredIndexIsSkipCount ==
    [][(/\ pc = "chapter" /\ pc' = "chunk"
        /\ truthy(progress)
        /\ chapter_num = progress.chapter_index)
           => chunk_num' = progress.chunk_index + 1]_vars

\* a job begun with limit 3 and killed after its first chunk was finished
\* with limit 6: the output lacks a sentence of an uninterrupted run
C33_Witness ==
    /\ pc = "done"
    /\ hist.jobLimits = {3, 6} /\ max_chunk_words = 6
    /\ hist.jobSel = {0}
    /\ SampleCount(wavFile.data)
           < hist.jobBase + UninterruptedSamples(hist.jobSel, max_chunk_words)

\* the same job begun with limit 6 and finished with limit 3: a sentence is
\* in the output twice
C33_Repeated ==
    /\ pc = "done"
    /\ hist.jobLimits = {3, 6} /\ max_chunk_words = 3
    /\ hist.jobSel = {0}
    /\ SampleCount(wavFile.data)
           > hist.jobBase + UninterruptedSamples(hist.jobSel, max_chunk_words)

\* p is before q
PosLess(p, q) == PosLeq(p, q) /\ p # q

\* the output holds audio that the current job made for position p
AudioPresent(p) ==
    \E i \in 1..Len(wavFile.data) :
        /\ wavFile.data[i].job = hist.job
        /\ wavFile.data[i].ch = sorted(hist.jobSel)[p[1] + 1]
        /\ wavFile.data[i].ck = p[2]

\* the positions the run worked on and left without audio in the output
FailedChunks == {p \in hist.synthRun : ~AudioPresent(p)}

\* C34: the engine is invoked only on positions after every position saved
\* in the job, so a failed chunk before a saved one is not tried again; after
\* a successful chunk the checkpoint is past every position the run has
\* worked on; a run that reaches its end leaves no checkpoint, failed chunks
\* or not.
C34_FailedChunkNotRetried ==
    /\ pc = "synth" => \A q \in hist.saved : PosLess(q, Pos)
    /\ (hist.outcome = "ok" /\ pc \in {"stopSpinner", "join"})
           => LET stored == load_progress(progressFile)
              IN  \A p \in hist.synthRun :
                      PosLess(p, <<stored.chapter_index, stored.chunk_index>>)
    /\ (pc = "done" /\ FailedChunks # {}) => ~progressFile.exists

\* chunk 0 of chapter 0 failed, chunk 1 was saved, and the run ended: the
\* output lacks chunk 0 and there is no checkpoint to resume from
C34_Witness ==
    /\ pc = "done"
    /\ FailedChunks = {<<0, 0>>}
    /\ <<0, 1>> \in hist.saved
    /\ ~progressFile.exists

\* the position a checkpoint file stores, NoPos when it cannot be read
StoredPos(file) ==
    LET stored == load_progress(file)
    IN  IF truthy(stored) THEN <<stored.chapter_index, stored.chunk_index>> ELSE NoPos

\* C35: a step that puts a record into the checkpoint file is the save of
\* the selection, with position (0, 0) and total 0, or a save of the main
\* loop, whose position is after the position the file held when the chunk
\* began and after every position saved earlier in the job.
C35_PositionIncreasesInLoop ==
    [][(CkptKind(progressFile') = "ok" /\ progressFile' # progressFile)
           => \/ /\ pc = "selDump"
                 /\ StoredPos(progressFile') = <<0, 0>>
                 /\ load_progress(progressFile').total_chunks = 0
              \/ /\ pc = "dump"
                 /\ CkptKind(hist.ckptBefore) = "ok"
                        => PosLess(StoredPos(hist.ckptBefore), StoredPos(progressFile'))
                 /\ \A q \in hist.saved :
                        PosLess(<<q[1], q[2] + 1>>, StoredPos(progressFile'))]_vars

\* the save after chunk 0 of chapter 1 replaced the position (0, 2) by (1, 1)
C35_Witness ==
    /\ hist.outcome = "ok" /\ pc = "join"
    /\ StoredPos(hist.ckptBefore) = <<0, 2>>
    /\ StoredPos(progressFile) = <<1, 1>>

\* a record as the selection step writes it
SelectionRecord(d) == d.chapter_index = 0 /\ d.chunk_index = 0 /\ d.total_chunks = 0

\* C36: a record in the checkpoint file that the main loop wrote has
\* 1 <= chunk_index <= total_chunks and 0 <= chapter_index < number of
\* selected chapters; a run never finds the stored chapter index outside its
\* chapter list; a run resumed from chunk_index = total_chunks works on no
\* chunk of that chapter and goes on with later chapters.
C36_CheckpointInRange ==
    /\ LET stored == load_progress(progressFile)
       IN  (truthy(stored) /\ ~SelectionRecord(stored))
               => /\ 1 <= stored.chunk_index
                  /\ stored.chunk_index <= stored.total_chunks
                  /\ 0 <= stored.chapter_index
                  /\ stored.chapter_index < Len(stored.selected_chapters)
    /\ pc = "resolve"
           => LET loaded == load_progress(progressFile)
              IN  truthy(loaded) => loaded.chapter_index < Len(chapters)
    /\ (Resuming /\ progress.chunk_index >= 1
                 /\ progress.chunk_index = progress.total_chunks)
           => /\ \A p \in hist.synthRun : p[1] > progress.chapter_index
              /\ InChunk => chapter_num > progress.chapter_index

\* resumed from (0, 2) of 2 chunks, the run began with chunk 0 of chapter 1
C36_Witness ==
    /\ Resuming /\ pc = "append"
    /\ progress.chapter_index = 0
    /\ progress.chunk_index = 2 /\ progress.total_chunks = 2
    /\ hist.synthRun = {<<1, 0>>}

\* strictly ascending, so without repetition
Ascending(seq) == \A i, j \in 1..Len(seq) : i < j => seq[i] < seq[j]

\* the run has its chapter list and is in the main loop
InMainLoop ==
    pc \in {"resolve", "chapter", "chunk", "synth", "append", "appendWrite", "save",
            "dump", "stopSpinner", "join", "chapterEnd", "cleanup"}

\* C37: in the main loop the chapter list is the ascending list of the
\* indices chosen or reused at the start of the run, which is the selection
\* of the job; every record in the checkpoint file and every record being
\* written stores that list; audio is made for the chapter the loop is at.
C37_SelectionStoredSorted ==
    /\ InMainLoop
           => /\ Ascending(chapters)
              /\ set_of(chapters) = selected_indices
              /\ selected_indices = hist.jobSel
              /\ LET stored == load_progress(progressFile)
                 IN  truthy(stored) => stored.selected_chapters = chapters
    /\ pc \in {"selDump", "dump"}
           => /\ Ascending(dump_data.selected_chapters)
              /\ set_of(dump_data.selected_chapters) = selected_indices
    /\ pc \in {"append", "appendWrite", "save", "dump"}
           => audio_data.ch = chapters[chapter_num + 1]

\* a run that reused the selection of both chapters has saved a chunk of the
\* second one
C37_Witness ==
    /\ hist.resumed /\ hist.outcome = "ok" /\ pc = "join"
    /\ chapters = <<0, 1>> /\ chapter_num = 1
    /\ load_progress(progressFile).selected_chapters = <<0, 1>>

\* every chunk of every chapter of the list was worked on by this run or is
\* before the position the run resumed from
AllAttempted ==
    \A c \in 0..(Len(chapters) - 1) :
        \A j \in 0..(NumChunks(chapters[c + 1], max_chunk_words) - 1) :
            \/ <<c, j>> \in hist.synthRun
            \/ /\ truthy(progress)
               /\ PosLess(<<c, j>>, <<progress.chapter_index, progress.chunk_index>>)

\* the process has ended, its spinner thread too
Terminated == Stopped /\ spinner # "running"

\* C38: the command run again and again ends a run with every chunk
\* attempted and the checkpoint removed, and every run ends.
C38_RestartsReachCompletion ==
    /\ [](pc = "cleanup" => AllAttempted)
    /\ <>(pc = "done" /\ ~progressFile.exists)
    /\ (pc = "load") ~> Terminated

C38_Witness ==
    /\ pc = "done" /\ hist.resumed /\ runs = MaxRuns
    /\ ~progressFile.exists /\ wavFile.exists

\* a spinner thread is started
SpinnerStarts == spinner' = "running" /\ (spinner # "running" \/ pc = "chunk")

\* C39: a spinner is started at the head of a chunk only and none is alive
\* there, so at most one is alive and the one of a chunk is joined before the
\* next chunk; and a running spinner ends.
C39_SpinnerAlwaysEnds ==
    /\ [](pc = "chunk" => spinner # "running")
    /\ [][SpinnerStarts => pc = "chunk" /\ pc' = "synth" /\ spinner # "running"]_vars
    /\ (spinner = "running") ~> (spinner # "running")

\* the spinner of a chunk runs from the chunk's head to its join, in every
\* state of a process that goes on
OneSpinnerPerChunk ==
    /\ pc = "chunk" => spinner # "running"
    /\ pc \in {"synth", "append", "appendWrite", "save", "dump", "stopSpinner"}
           => spinner = "running" /\ ~stop_spinner
    /\ pc = "join" => spinner \in {"running", "exited"} /\ stop_spinner

=============================================================================
